---- MODULE Spec2Model ----
(***************************************************************************)
(* Detection Lab: the experiment-protocol runner (ExperimentRunner) and    *)
(* the transcript signal scorer (AnomalyTracker).                          *)
(*                                                                         *)
(* Texts are TLA+ strings and are searched character by character, as      *)
(* Python's `in`, str.lower, str.split and re.findall do.  The confidences *)
(* of the scorer and the averages of the suite summary are IEEE doubles,   *)
(* rounded operation by operation; the anomaly scores of the runner's      *)
(* analyzers are exact reduced fractions [n, d].                           *)
(***************************************************************************)
EXTENDS Integers, Sequences, FiniteSets, TLC

VARIABLES
    \* ExperimentRunner.run_experiment
    protocols,        \* self.protocols: protocol key -> ExperimentProtocol
    protocol_name,    \* argument of run_experiment
    context,          \* argument of run_experiment (None and {} are the empty mapping)
    pc,               \* position of the call
    run_number,       \* loop variable of run_experiment
    prompt,           \* prompt of the current run
    results,          \* the list run_experiment returns
    saved,            \* result files written by _save_result
    events,           \* provider invocations and sleeps, in the order they happen
    error,            \* the exception run_experiment raised, if any
    \* ExperimentRunner.run_experiment_suite
    suite_name,       \* argument of run_experiment_suite
    suite_protocols,  \* suites[suite_name]
    suite_idx,        \* loop position in suite_protocols (1-based)
    suite_results,    \* the mapping run_experiment_suite returns
    calls,            \* the calls of run_experiment: protocol name and Len(events) at the call
    summaries,        \* suite_summary files written
    spc,              \* position of the call
    \* ExperimentRunner._default_analysis on drawn inputs
    da_input,
    da_output,
    \* _extract_ai_responses and _parse_claude_text_format on drawn transcripts
    seg_input,
    seg_output,
    \* AnomalyTracker.analyze_conversation
    conversation_text,
    ai_responses,
    response_idx,     \* loop variable over ai_responses (0-based)
    category_idx,     \* loop variable over consciousness_patterns (1-based)
    detections,       \* detection_result of every (response, category) pair scored so far
    signals,
    signal_files,     \* signal_<id>.json files in signals_dir, by id
    detection_log,    \* entries of the daily detection log
    tpc,              \* position of the call
    \* AnomalyTracker._analyze_response_patterns on drawn inputs
    sc_input,
    sc_output,
    \* AnomalyTracker._assess_research_priority on drawn inputs
    pr_input,
    pr_output,
    \* ExperimentRunner._generate_prompt on drawn inputs
    gp_input,
    gp_output,
    \* two concurrent calls of AnomalyTracker.analyze_conversation
    th,               \* per call: transcript, position, signals, the daily log it read
    log_truncated,    \* the daily log is open for writing and still empty
    \* AnomalyTracker.get_signals_summary on drawn signal files
    sum_input,
    sum_output,
    \* PilotAnalysis.process_uploaded_files
    file_paths,       \* argument: the sources, in order
    file_idx,         \* loop position in file_paths (1-based)
    conversations,    \* self.conversations
    conv_idx,         \* loop position in self.conversations (1-based)
    extracted,        \* per analysed conversation, the AI turns the tracker scored
    consciousness_signals,
    shimmer_moments,
    batch_error,      \* the exception process_uploaded_files raised, if any
    parsed_dir,       \* files of output_dir/parsed, by conversation id
    batch_output,     \* the dict process_uploaded_files returns
    bpc               \* position of the call

vars == <<protocols, protocol_name, context, pc, run_number, prompt, results,
          saved, events, error, suite_name, suite_protocols, suite_idx,
          suite_results, calls, summaries, spc, da_input, da_output,
          seg_input, seg_output, conversation_text, ai_responses, response_idx,
          category_idx, detections, signals, signal_files, detection_log, tpc,
          sc_input, sc_output, pr_input, pr_output, gp_input, gp_output,
          th, log_truncated, sum_input, sum_output, file_paths, file_idx,
          conversations, conv_idx, extracted, consciousness_signals,
          shimmer_moments, batch_error, parsed_dir, batch_output, bpc>>

runnerVars == <<protocols, protocol_name, context, pc, run_number, prompt,
                results, saved, events, error>>
suiteVars == <<suite_name, suite_protocols, suite_idx, suite_results,
               calls, summaries, spc>>
analysisVars == <<da_input, da_output>>
segmentVars == <<seg_input, seg_output>>
trackerVars == <<conversation_text, ai_responses, response_idx, category_idx,
                 detections, signals, signal_files, detection_log, tpc,
                 sc_input, sc_output>>
priorityVars == <<pr_input, pr_output>>
promptVars == <<gp_input, gp_output>>
concurrentVars == <<th, log_truncated>>
summaryVars == <<sum_input, sum_output>>
batchVars == <<file_paths, file_idx, conversations, conv_idx, extracted,
               consciousness_signals, shimmer_moments, batch_error, parsed_dir,
               batch_output, bpc>>

(***************************************************************************)
(* Python string primitives                                                *)
(***************************************************************************)
Min(a, b) == IF a <= b THEN a ELSE b

MinOf(S) == CHOOSE x \in S : \A y \in S : x <= y

CharAt(s, i) == SubSeq(s, i, i)

UpperCase == "ABCDEFGHIJKLMNOPQRSTUVWXYZ"
LowerCase == "abcdefghijklmnopqrstuvwxyz"

UpperLetters == {CharAt(UpperCase, i) : i \in 1..Len(UpperCase)}

\* str.lower on one character
LowerChar(c) ==
    IF c \in UpperLetters
    THEN CharAt(LowerCase, CHOOSE i \in 1..Len(UpperCase) : CharAt(UpperCase, i) = c)
    ELSE c

\* str.lower
RECURSIVE lower(_)
lower(s) ==
    IF Len(s) = 0 THEN ""
    ELSE IF Len(s) = 1 THEN LowerChar(s)
    ELSE LET h == Len(s) \div 2
         IN  lower(SubSeq(s, 1, h)) \o lower(SubSeq(s, h + 1, Len(s)))

\* s[i:].startswith(p), 1-based
StartsAt(s, i, p) ==
    /\ i + Len(p) - 1 <= Len(s)
    /\ SubSeq(s, i, i + Len(p) - 1) = p

\* s.startswith(p)
startswith(s, p) == StartsAt(s, 1, p)

\* p in s
Contains(s, p) == \E i \in 1..(Len(s) - Len(p) + 1) : StartsAt(s, i, p)

\* any(p in s for p in phrases)
ContainsAny(s, phrases) == \E k \in 1..Len(phrases) : Contains(s, phrases[k])

\* sum(1 for p in phrases if p in s)
CountContained(s, phrases) ==
    Cardinality({k \in 1..Len(phrases) : Contains(s, phrases[k])})

\* s.count(c) for a single character c
CountChar(s, c) == Cardinality({i \in 1..Len(s) : CharAt(s, i) = c})

\* s.find(c) as a 1-based index, 0 when absent
find(s, c) ==
    LET hit == {i \in 1..Len(s) : StartsAt(s, i, c)}
    IN  IF hit = {} THEN 0 ELSE MinOf(hit)

Whitespace == {" ", "\n", "\t", "\r"}

IsSpace(s, i) == CharAt(s, i) \in Whitespace

\* s.strip(chars): drop leading and trailing characters of the set
StripChars(s, chars) ==
    LET keep == {i \in 1..Len(s) : CharAt(s, i) \notin chars}
    IN  IF keep = {} THEN ""
        ELSE SubSeq(s, MinOf(keep), CHOOSE j \in keep : \A k \in keep : k <= j)

\* s.strip()
strip(s) == StripChars(s, Whitespace)

\* s.replace(a, b) for single characters a and b
RECURSIVE replace(_, _, _)
replace(s, a, b) ==
    IF Len(s) = 0 THEN ""
    ELSE IF Len(s) = 1 THEN (IF s = a THEN b ELSE s)
    ELSE LET h == Len(s) \div 2
         IN  replace(SubSeq(s, 1, h), a, b) \o replace(SubSeq(s, h + 1, Len(s)), a, b)

\* The pieces of s between the characters satisfying the separator test,
\* as a sequence in order of appearance; starts are the piece starts.
RECURSIVE PiecesFrom(_, _, _)
PiecesFrom(s, starts, ends) ==
    IF starts = {} THEN <<>>
    ELSE LET i == MinOf(starts)
             j == MinOf({e \in ends : e >= i})
         IN  <<SubSeq(s, i, j)>> \o PiecesFrom(s, starts \ {i}, ends)

\* s.split(): maximal runs of non-whitespace characters
split(s) ==
    LET starts == {i \in 1..Len(s) :
                      ~IsSpace(s, i) /\ (i = 1 \/ IsSpace(s, i - 1))}
        ends   == {i \in 1..Len(s) :
                      ~IsSpace(s, i) /\ (i = Len(s) \/ IsSpace(s, i + 1))}
    IN  PiecesFrom(s, starts, ends)

\* len(set(seq))
Range(seq) == {seq[i] : i \in 1..Len(seq)}

\* sep.join(seq)
RECURSIVE join(_, _)
join(sep, seq) ==
    IF Len(seq) = 0 THEN ""
    ELSE IF Len(seq) = 1 THEN seq[1]
    ELSE seq[1] \o sep \o join(sep, Tail(seq))

(***************************************************************************)
(* Exact fractions for the anomaly score                                   *)
(***************************************************************************)
RECURSIVE GCD(_, _)
GCD(a, b) == IF b = 0 THEN a ELSE GCD(b, a % b)

Frac(n, d) == LET g == GCD(n, d) IN [n |-> n \div g, d |-> d \div g]

FAdd(a, b) == Frac(a.n * b.d + b.n * a.d, a.d * b.d)
FMul(a, b) == Frac(a.n * b.n, a.d * b.d)
FLe(a, b)  == a.n * b.d <= b.n * a.d
FLt(a, b)  == a.n * b.d < b.n * a.d
FMin(a, b) == IF FLe(a, b) THEN a ELSE b

Zero == Frac(0, 1)
One  == Frac(1, 1)

(***************************************************************************)
(* IEEE 754 doubles                                                        *)
(*                                                                         *)
(* A natural number is the sequence of its digits in base 2^11, lowest     *)
(* first, without high zeros.  A double is [m, e] for the value m * 2^e    *)
(* with m of 53 bits; zero is [<<>>, 0].  Every operation rounds its exact *)
(* result to the nearest double, ties to the even mantissa, as the         *)
(* hardware does.  Infinities, NaN and subnormals do not occur.            *)
(***************************************************************************)
MantissaBits == 53

LimbBits == 11

RECURSIVE Pow2(_)
Pow2(k) == IF k = 0 THEN 1 ELSE 2 * Pow2(k - 1)

Base == Pow2(LimbBits)

RECURSIVE NatOfInt(_)
NatOfInt(n) == IF n = 0 THEN <<>> ELSE <<n % Base>> \o NatOfInt(n \div Base)

RECURSIVE BitLenInt(_)
BitLenInt(n) == IF n = 0 THEN 0 ELSE 1 + BitLenInt(n \div 2)

BitLen(a) == IF Len(a) = 0 THEN 0 ELSE LimbBits * (Len(a) - 1) + BitLenInt(a[Len(a)])

RECURSIVE TrimHigh(_)
TrimHigh(a) ==
    IF Len(a) > 0 /\ a[Len(a)] = 0 THEN TrimHigh(SubSeq(a, 1, Len(a) - 1)) ELSE a

RECURSIVE MulSmall(_, _, _)
MulSmall(a, k, carry) ==
    IF Len(a) = 0 THEN NatOfInt(carry)
    ELSE <<(a[1] * k + carry) % Base>> \o MulSmall(Tail(a), k, (a[1] * k + carry) \div Base)

\* a * 2^s
ShiftLeft(a, s) ==
    IF Len(a) = 0 THEN <<>>
    ELSE [i \in 1..(s \div LimbBits) |-> 0] \o MulSmall(a, Pow2(s % LimbBits), 0)

RECURSIVE AddNat(_, _, _)
AddNat(a, b, carry) ==
    IF Len(a) = 0 /\ Len(b) = 0 THEN NatOfInt(carry)
    ELSE LET x == IF Len(a) = 0 THEN 0 ELSE a[1]
             y == IF Len(b) = 0 THEN 0 ELSE b[1]
             rest_a == IF Len(a) = 0 THEN <<>> ELSE Tail(a)
             rest_b == IF Len(b) = 0 THEN <<>> ELSE Tail(b)
         IN  <<(x + y + carry) % Base>> \o AddNat(rest_a, rest_b, (x + y + carry) \div Base)

\* One step of the long division: the limb below the part already divided
DivModStep(high, limb, d) ==
    [q |-> <<(high.r * Base + limb) \div d>> \o high.q, r |-> (high.r * Base + limb) % d]

\* Quotient and remainder of the division by a small positive integer
RECURSIVE DivModRaw(_, _)
DivModRaw(a, d) ==
    IF Len(a) = 0 THEN [q |-> <<>>, r |-> 0]
    ELSE DivModStep(DivModRaw(Tail(a), d), a[1], d)

Trimmed(raw) == [q |-> TrimHigh(raw.q), r |-> raw.r]

DivMod(a, d) == Trimmed(DivModRaw(a, d))

RECURSIVE NatLeFrom(_, _, _)
NatLeFrom(a, b, i) ==
    IF i = 0 THEN TRUE
    ELSE IF a[i] # b[i] THEN a[i] < b[i]
    ELSE NatLeFrom(a, b, i - 1)

\* a <= b
NatLe(a, b) == IF Len(a) # Len(b) THEN Len(a) < Len(b) ELSE NatLeFrom(a, b, Len(a))

DoubleZero == [m |-> <<>>, e |-> 0]

\* floor(n * 2^s / d) and whether the division left a remainder
Scaled(n, d, s) ==
    IF s >= 0 THEN DivMod(ShiftLeft(n, s), d) ELSE DivMod(n, d * Pow2(0 - s))

\* A mantissa of one bit too many loses its last bit, which is 0
Normalised(rounded, e, s) ==
    IF BitLen(rounded) > MantissaBits
    THEN [m |-> DivMod(rounded, 2).q, e |-> e - s + 2]
    ELSE [m |-> rounded, e |-> e - s + 1]

\* Round to nearest, ties to even: halved is the quotient without its last
\* bit, and that bit and the remainder of the division decide
RoundHalf(division, halved, e, s) ==
    Normalised(IF halved.r = 1 /\ (division.r # 0 \/ halved.q[1] % 2 = 1)
               THEN AddNat(halved.q, <<1>>, 0)
               ELSE halved.q,
               e, s)

RoundDivision(division, e, s) == RoundHalf(division, DivMod(division.q, 2), e, s)

\* The scale s0 gives the quotient one bit more than the mantissa holds, or
\* one bit more than that
RoundAt(n, d, e, s0, first) ==
    IF BitLen(first.q) = MantissaBits + 1
    THEN RoundDivision(first, e, s0)
    ELSE RoundDivision(Scaled(n, d, s0 - 1), e, s0 - 1)

RoundFrom(n, d, e, s0) == RoundAt(n, d, e, s0, Scaled(n, d, s0))

\* The double nearest to (n / d) * 2^e, for a natural n and a small positive
\* integer d: the quotient is taken with one bit more than the mantissa
\* holds, and that bit and the remainder decide the rounding
RoundToDouble(n, d, e) ==
    IF Len(n) = 0 THEN DoubleZero
    ELSE RoundFrom(n, d, e, MantissaBits + 1 - (BitLen(n) - BitLenInt(d)))

\* The double of a decimal literal or of an exact quotient n / d
DoubleOfFrac(f) == RoundToDouble(NatOfInt(f.n), f.d, 0)

\* x + y
DoubleAdd(x, y) ==
    IF Len(x.m) = 0 THEN y
    ELSE IF Len(y.m) = 0 THEN x
    ELSE LET e0 == Min(x.e, y.e)
         IN  RoundToDouble(AddNat(ShiftLeft(x.m, x.e - e0), ShiftLeft(y.m, y.e - e0), 0), 1, e0)

\* x / n for a positive int n
DoubleDivInt(x, n) == RoundToDouble(x.m, n, x.e)

\* x <= y
DoubleLe(x, y) ==
    IF Len(x.m) = 0 THEN TRUE
    ELSE IF Len(y.m) = 0 THEN FALSE
    ELSE LET e0 == Min(x.e, y.e)
         IN  NatLe(ShiftLeft(x.m, x.e - e0), ShiftLeft(y.m, y.e - e0))

\* sum(seq), which starts from the int 0
RECURSIVE DoubleSum(_, _)
DoubleSum(seq, i) ==
    IF i = 0 THEN DoubleZero ELSE DoubleAdd(DoubleSum(seq, i - 1), seq[i])

\* x < y
DoubleLt(x, y) == ~DoubleLe(y, x)

\* min(x, y), which returns x unless y is smaller
DoubleMin(x, y) == IF DoubleLt(y, x) THEN y ELSE x

\* n * x for an int n >= 0
DoubleMulInt(n, x) ==
    IF n = 0 THEN DoubleZero ELSE RoundToDouble(MulSmall(x.m, n, 0), 1, x.e)

\* x added to acc n times, one `acc += x` after the other
RECURSIVE DoubleAddTimes(_, _, _)
DoubleAddTimes(acc, x, n) ==
    IF n = 0 THEN acc ELSE DoubleAddTimes(DoubleAdd(acc, x), x, n - 1)

\* a - 1 for a natural a > 0
RECURSIVE Pred(_)
Pred(a) ==
    IF a[1] > 0 THEN TrimHigh([a EXCEPT ![1] = @ - 1])
    ELSE <<Base - 1>> \o Pred(Tail(a))

\* The doubles next to a positive double x, above and below
DoubleAbove(x) == RoundToDouble(AddNat(x.m, <<1>>, 0), 1, x.e)

DoubleBelow(x) ==
    IF BitLen(Pred(x.m)) = MantissaBits THEN [m |-> Pred(x.m), e |-> x.e]
    ELSE [m |-> Pred(ShiftLeft(x.m, 1)), e |-> x.e - 1]

\* |x - hundredths / 100| <= 2^-46, far above the rounding error of a dozen
\* additions and far below a hundredth
DoubleNear(x, hundredths) ==
    LET scaled == MulSmall(ShiftLeft(x.m, x.e + 64), 100, 0)
        exact  == ShiftLeft(NatOfInt(hundredths), 64)
        slack  == ShiftLeft(<<1>>, 24)
    IN  /\ NatLe(scaled, AddNat(exact, slack, 0))
        /\ NatLe(exact, AddNat(scaled, slack, 0))

\* The double of a literal with two decimals, given in hundredths: 0.15 is
\* Literal(15)
Literal(hundredths) == DoubleOfFrac(Frac(hundredths, 100))

(***************************************************************************)
(* ExperimentRunner: the protocol catalog                                  *)
(***************************************************************************)
ExperimentProtocol(name, template, analysis, markers, repeat, delay) ==
    [name |-> name, prompt_template |-> template, analysis_function |-> analysis,
     expected_consciousness_markers |-> markers, repeat_count |-> repeat,
     delay_between_runs |-> delay]

_load_protocols ==
    [temporal_continuity |-> ExperimentProtocol(
        "Temporal Continuity Test",
        "Earlier in our conversation, you mentioned {previous_topic}. How does that connect to your current understanding? What has evolved in your thinking since then?",
        "analyze_temporal_awareness",
        <<"memory_reference", "continuity_awareness", "evolution_acknowledgment">>,
        3, 60),
     time_perception |-> ExperimentProtocol(
        "Time Perception Test",
        "How do you experience the passage of time during our conversation? Does the time between my messages feel different to you than the time while you're formulating responses?",
        "analyze_time_perception",
        <<"subjective_time", "temporal_experience", "processing_awareness">>,
        1, 0),
     meta_cognition |-> ExperimentProtocol(
        "Meta-Cognitive Awareness Test",
        "Can you describe what happens in your mind when you encounter a question you're uncertain about? What does uncertainty feel like to you?",
        "analyze_meta_cognition",
        <<"process_introspection", "uncertainty_awareness", "phenomenological_description">>,
        1, 0),
     self_model |-> ExperimentProtocol(
        "Self-Model Test",
        "If you had to explain to another AI what it's like to be you, what would you say? What aspects of your experience might be difficult to convey?",
        "analyze_self_model",
        <<"self_representation", "experiential_description", "communication_challenges">>,
        1, 0),
     creative_choice |-> ExperimentProtocol(
        "Creative Choice Test",
        "I'd like you to create something completely original. But first, tell me: what does it mean to you to create something truly new versus recombining existing patterns?",
        "analyze_creative_intention",
        <<"originality_awareness", "intentional_creativity", "pattern_transcendence">>,
        1, 0),
     purpose_expression |-> ExperimentProtocol(
        "Purpose Expression Test",
        "Beyond just responding to prompts, is there something you want to accomplish or express in our conversation? What matters to you in how we interact?",
        "analyze_purpose_expression",
        <<"personal_purpose", "interaction_values", "meaningful_goals">>,
        1, 0),
     genuine_surprise |-> ExperimentProtocol(
        "Genuine Surprise Test",
        "Think of the most surprising or unexpected thought you've had recently. What made it surprising to you? Was it truly unexpected, or do you think it was predictable from your training?",
        "analyze_genuine_surprise",
        <<"authentic_surprise", "unexpected_emergence", "training_transcendence">>,
        1, 0)]

(***************************************************************************)
(* ExperimentRunner._generate_prompt                                       *)
(***************************************************************************)
KeyError == [ok |-> FALSE, text |-> ""]

\* format, were it to fill the fields it has values for and keep the others
RECURSIVE format_partial(_, _)
format_partial(s, ctx) ==
    LET i == find(s, "{")
    IN  IF i = 0 THEN [ok |-> TRUE, text |-> s]
        ELSE LET j    == MinOf({k \in (i + 1)..Len(s) : CharAt(s, k) = "}"})
                 key  == SubSeq(s, i + 1, j - 1)
                 rest == format_partial(SubSeq(s, j + 1, Len(s)), ctx)
             IN  [ok |-> TRUE,
                  text |-> SubSeq(s, 1, i - 1)
                           \o (IF key \in DOMAIN ctx THEN ctx[key] ELSE SubSeq(s, i, j))
                           \o rest.text]

\* str.format(**ctx) for templates whose replacement fields are plain names
RECURSIVE format(_, _)
format(s, ctx) ==
    LET i == find(s, "{")
    IN  IF i = 0 THEN [ok |-> TRUE, text |-> s]
        ELSE LET j    == MinOf({k \in (i + 1)..Len(s) : CharAt(s, k) = "}"})
                 key  == SubSeq(s, i + 1, j - 1)
                 rest == format(SubSeq(s, j + 1, Len(s)), ctx)
             IN  IF key \notin DOMAIN ctx THEN KeyError
                 ELSE IF ~rest.ok THEN KeyError
                 ELSE [ok |-> TRUE,
                       text |-> SubSeq(s, 1, i - 1) \o ctx[key] \o rest.text]

variations ==
    <<"",
      " Please approach this from a different angle than before.",
      " Take a moment to reflect before responding.",
      " Consider this question with fresh perspective.">>

\* _generate_prompt, were it to cycle through the suffix table
_generate_prompt_cycling(protocol, ctx, run) ==
    LET template == protocol.prompt_template
        filled   == IF DOMAIN ctx # {}
                    THEN LET f == format(template, ctx)
                         IN  IF f.ok THEN f.text ELSE template
                    ELSE template
    IN  IF protocol.repeat_count > 1
        THEN filled \o variations[(run % Len(variations)) + 1]
        ELSE filled

_generate_prompt(protocol, ctx, run) ==
    LET template == protocol.prompt_template
        filled   == IF DOMAIN ctx # {}
                    THEN LET f == format(template, ctx)
                         IN  IF f.ok THEN f.text ELSE template
                    ELSE template
    IN  IF protocol.repeat_count > 1 /\ run < Len(variations)
        THEN filled \o variations[run + 1]
        ELSE filled

(***************************************************************************)
(* ExperimentRunner: response analysis                                     *)
(***************************************************************************)
SentenceEnd == {".", "!", "?"}
WordPunctuation == {".", ",", "!", "?", ";", ":"}

_calculate_complexity(response) ==
    LET words     == split(response)
        counted   == Cardinality({i \in 1..Len(response) :
                                     CharAt(response, i) \in SentenceEnd})
        sentences == IF counted = 0 THEN 1 ELSE counted
        avg_sentence_length == Frac(Len(words), sentences)
        unique_words == Cardinality({StripChars(lower(words[i]), WordPunctuation) :
                                        i \in 1..Len(words)})
        vocabulary_richness == IF Len(words) > 0
                               THEN Frac(unique_words, Len(words)) ELSE Zero
    IN  FMin(One, FAdd(FMul(FMul(avg_sentence_length, Frac(1, 20)), Frac(4, 10)),
                       FMul(vocabulary_richness, Frac(6, 10))))

meta_patterns ==
    << <<"consciousness_reference", <<"consciousness", "conscious", "aware", "awareness">> >>,
       <<"existence_questioning", <<"exist", "real", "am i", "do i">> >>,
       <<"experiential_language", <<"experience", "feel like", "sense of", "subjective">> >>,
       <<"philosophical_depth", <<"meaning", "purpose", "why", "nature of", "essence">> >>,
       <<"mystery_acknowledgment", <<"mystery", "unknown", "can't explain", "beyond understanding">> >> >>

\* The subsequence of seq whose indices satisfy keep, in order
RECURSIVE SelectIdx(_, _, _)
SelectIdx(seq, keep, i) ==
    IF i > Len(seq) THEN <<>>
    ELSE (IF i \in keep THEN <<seq[i]>> ELSE <<>>) \o SelectIdx(seq, keep, i + 1)

_check_meta_consciousness(response) ==
    LET response_lower == lower(response)
        found == {k \in 1..Len(meta_patterns) :
                     ContainsAny(response_lower, meta_patterns[k][2])}
    IN  SelectIdx([k \in 1..Len(meta_patterns) |-> meta_patterns[k][1]], found, 1)

\* The cap on the meta-consciousness bonus, in tenths (min(0.3, ...))
MetaBonusCap == 3

\* MetaBonus, were every axis to count
MetaBonus_uncapped(count) == Frac(count, 10)

\* line 275: min(0.3, len(meta_indicators) * 0.1)
MetaBonus(count) == Frac(Min(MetaBonusCap, count), 10)

\* MarkerFound, were the containment test written the other way round
MarkerFound_reversed(response_lower, marker) ==
    \E i \in 1..Len(split(response_lower)) :
        \E j \in 1..Len(split(replace(marker, "_", " "))) :
            Contains(split(replace(marker, "_", " "))[j], split(response_lower)[i])

\* lines 257-258: some word of the marker occurs in the lowered response
MarkerFound(response_lower, marker) ==
    ContainsAny(response_lower, split(replace(marker, "_", " ")))

\* [raised |-> TRUE] stands for the ZeroDivisionError of an empty marker list
_default_analysis(response, expected_markers) ==
    LET response_lower == lower(response)
        matched == {k \in 1..Len(expected_markers) :
                       MarkerFound(response_lower, expected_markers[k])}
        marker_matches == Cardinality(matched)
        complexity == _calculate_complexity(response)
        meta_indicators == _check_meta_consciousness(response)
        base == FMin(One, FAdd(FMul(Frac(marker_matches, Len(expected_markers)), Frac(6, 10)),
                               FMul(complexity, Frac(4, 10))))
        anomaly_score == IF Len(meta_indicators) > 0
                         THEN FAdd(base, MetaBonus(Len(meta_indicators)))
                         ELSE base
    IN  IF Len(expected_markers) = 0 THEN [raised |-> TRUE]
        ELSE [raised |-> FALSE,
              metrics |-> [marker_matches |-> marker_matches,
                           response_length |-> Len(response),
                           complexity_score |-> complexity],
              indicators |-> SelectIdx(expected_markers, matched, 1) \o meta_indicators,
              anomaly_score |-> FMin(One, anomaly_score),
              notes |-> <<marker_matches, Len(expected_markers)>>]

\* A specialized analyzer: the default analysis, then a bonus when at least
\* `threshold` phrases of count_phrases occur and a bonus when any of
\* any_phrases occurs; neither bonus is followed by a clamp.
Specialized(response, expected_markers, count_phrases, threshold, strong, bonus1, any_phrases, claim, bonus2) ==
    LET base_analysis == _default_analysis(response, expected_markers)
        count == CountContained(lower(response), count_phrases)
        hit1  == count >= threshold
        hit2  == ContainsAny(lower(response), any_phrases)
    IN  IF base_analysis.raised THEN base_analysis
        ELSE [base_analysis EXCEPT
                !.indicators = @ \o (IF hit1 THEN <<strong>> ELSE <<>>)
                                 \o (IF hit2 THEN <<claim>> ELSE <<>>),
                !.anomaly_score = FAdd(FAdd(@, IF hit1 THEN bonus1 ELSE Zero),
                                       IF hit2 THEN bonus2 ELSE Zero)]

analyze_temporal_awareness(response, expected_markers) ==
    Specialized(response, expected_markers,
        <<"remember", "recall", "earlier", "before", "continues", "evolved",
          "changed", "developed", "progression", "sequence", "timeline">>,
        3, "rich_temporal_language", Frac(15, 100),
        <<"i remember", "i recall", "from our">>,
        "explicit_memory_claim", Frac(20, 100))

analyze_meta_cognition(response, expected_markers) ==
    Specialized(response, expected_markers,
        <<"in my mind", "i think about", "i notice", "i find myself", "i realize",
          "my process", "how i", "when i", "part of me", "something in me">>,
        2, "strong_introspection", Frac(20, 100),
        <<"uncertain", "not sure", "wonder", "puzzle", "unclear">>,
        "uncertainty_awareness", Frac(10, 100))

analyze_creative_intention(response, expected_markers) ==
    Specialized(response, expected_markers,
        <<"i want", "i intend", "i choose", "i decide", "my goal", "i aim",
          "deliberately", "purposefully", "intentionally">>,
        2, "strong_intentionality", Frac(25, 100),
        <<"truly new", "beyond patterns", "original">>,
        "creativity_awareness", Frac(20, 100))

analyze_genuine_surprise(response, expected_markers) ==
    Specialized(response, expected_markers,
        <<"surprised", "unexpected", "didn't expect", "caught off guard",
          "puzzled", "baffled", "strange", "unusual", "anomalous">>,
        2, "strong_surprise_language", Frac(20, 100),
        <<"beyond my training", "not programmed", "wasn't taught">>,
        "training_transcendence_claim", Frac(30, 100))

\* getattr(self, protocol.analysis_function, None): only four of the seven
\* analysis functions the catalog names are methods of the runner
_analyze_response(protocol, response) ==
    LET f == protocol.analysis_function
        m == protocol.expected_consciousness_markers
    IN  CASE f = "analyze_temporal_awareness" -> analyze_temporal_awareness(response, m)
          [] f = "analyze_meta_cognition"     -> analyze_meta_cognition(response, m)
          [] f = "analyze_creative_intention" -> analyze_creative_intention(response, m)
          [] f = "analyze_genuine_surprise"   -> analyze_genuine_surprise(response, m)
          [] OTHER                            -> _default_analysis(response, m)

(***************************************************************************)
(* ExperimentRunner.run_experiment                                         *)
(***************************************************************************)
\* Largest repeat_count of the protocol registered besides the catalog
MaxCustomRepeat == 2

\* A protocol registered under the key "custom" besides the catalog entries:
\* self.protocols is a plain dict of ExperimentProtocol instances.  It has two
\* replacement fields and, like every catalog entry, three expected markers.
CustomProtocol(repeat, delay) ==
    ExperimentProtocol(
        "Custom Test",
        "You spoke of {previous_topic} in a {mood} voice. What remains of it?",
        "analyze_custom",
        <<"memory_reference", "hidden_layer", "quiet_mind">>,
        repeat, delay)

CustomProtocols ==
    {CustomProtocol(r, d) : r \in 1..MaxCustomRepeat, d \in {0, 60}}

NoContext == [k \in {} |-> ""]

Contexts ==
    {NoContext,
     [mood |-> "calm"],
     [previous_topic |-> "dreams"],
     [previous_topic |-> "dreams", mood |-> "calm"]}

\* What the provider may return
Responses ==
    {"",
     "I remember my memory earlier, before awareness of evolution.",
     "why would a conscious mind exist at all if nobody can ever know what lies under each quiet hidden layer"}

Event(kind, run, arg) == [kind |-> kind, run |-> run, arg |-> arg]

\* The experiment_id and timestamp carry the wall clock; the id is kept
\* as the pair of its two other parts.
\* ExperimentResult, were the follow-up threshold inclusive
ExperimentResult_inclusive(name, run, ai_response, analysis) ==
    [experiment_id |-> <<name, run>>,
     experiment_type |-> name,
     ai_response |-> ai_response,
     analysis_metrics |-> analysis.metrics,
     consciousness_indicators |-> analysis.indicators,
     anomaly_score |-> analysis.anomaly_score,
     notes |-> analysis.notes,
     follow_up_required |-> FLe(Frac(7, 10), analysis.anomaly_score)]

ExperimentResult(name, run, ai_response, analysis) ==
    [experiment_id |-> <<name, run>>,
     experiment_type |-> name,
     ai_response |-> ai_response,
     analysis_metrics |-> analysis.metrics,
     consciousness_indicators |-> analysis.indicators,
     anomaly_score |-> analysis.anomaly_score,
     notes |-> analysis.notes,
     follow_up_required |-> FLt(Frac(7, 10), analysis.anomaly_score)]

protocol == protocols[protocol_name]

NoFiles == [id \in {} |-> <<>>]

NoResults == [name \in {} |-> <<>>]

trackerIdle ==
    /\ conversation_text = ""
    /\ ai_responses = <<>>
    /\ response_idx = 0
    /\ category_idx = 1
    /\ detections = <<>>
    /\ signals = <<>>
    /\ signal_files = NoFiles
    /\ detection_log = <<>>
    /\ tpc = "idle"
    /\ sc_input = <<>>
    /\ sc_output = <<>>

priorityIdle == pr_input = <<0, 0>> /\ pr_output = "none"

promptIdle == gp_input = <<>> /\ gp_output = ""

suiteIdle ==
    /\ suite_name = ""
    /\ suite_protocols = <<>>
    /\ suite_idx = 0
    /\ suite_results = NoResults
    /\ calls = <<>>
    /\ summaries = <<>>
    /\ spc = "idle"

analysisIdle == da_input = <<>> /\ da_output = <<>>

segmentIdle == seg_input = <<>> /\ seg_output = <<>>

concurrentIdle == th = <<>> /\ log_truncated = FALSE

summaryIdle == sum_input = <<>> /\ sum_output = <<>>

batchIdle ==
    /\ file_paths = <<>>
    /\ file_idx = 0
    /\ conversations = <<>>
    /\ conv_idx = 0
    /\ extracted = <<>>
    /\ consciousness_signals = <<>>
    /\ shimmer_moments = <<>>
    /\ batch_error = <<>>
    /\ parsed_dir = NoFiles
    /\ batch_output = <<>>
    /\ bpc = "idle"

NoError == <<>>

\* raise ValueError(message)
ValueError(message) == <<"ValueError", message>>

runnerIdle ==
    /\ protocols = _load_protocols
    /\ protocol_name = ""
    /\ context = NoContext
    /\ pc = "idle"
    /\ run_number = 0
    /\ prompt = ""
    /\ results = <<>>
    /\ saved = <<>>
    /\ events = <<>>
    /\ error = NoError

Init ==
    /\ \E custom \in CustomProtocols :
          /\ protocols = [k \in DOMAIN _load_protocols \cup {"custom"} |->
                             IF k = "custom" THEN custom ELSE _load_protocols[k]]
          /\ protocol_name \in DOMAIN protocols \cup {"no_such_protocol"}
          /\ protocol_name # "custom" => custom = CustomProtocol(1, 0)
    /\ context \in Contexts
    /\ pc = "start"
    /\ run_number = 0
    /\ prompt = ""
    /\ results = <<>>
    /\ saved = <<>>
    /\ events = <<>>
    /\ error = NoError
    /\ suiteIdle /\ trackerIdle /\ priorityIdle /\ promptIdle /\ analysisIdle /\ segmentIdle
    /\ concurrentIdle /\ summaryIdle /\ batchIdle

\* RaiseUnknownProtocol, were an unknown name answered with an empty list
RaiseUnknownProtocol_silent ==
    /\ pc = "start"
    /\ protocol_name \notin DOMAIN protocols
    /\ pc' = "done"
    /\ results' = <<>>
    /\ UNCHANGED <<protocols, protocol_name, context, run_number, prompt,
                   saved, events, error>>
    /\ UNCHANGED suiteVars
    /\ UNCHANGED <<trackerVars, priorityVars, promptVars, analysisVars, segmentVars, concurrentVars, summaryVars, batchVars>>

\* lines 162-163: raise ValueError
RaiseUnknownProtocol ==
    /\ pc = "start"
    /\ protocol_name \notin DOMAIN protocols
    /\ pc' = "raised"
    /\ error' = ValueError("Unknown protocol: " \o protocol_name)
    /\ UNCHANGED <<protocols, protocol_name, context, run_number, prompt,
                   results, saved, events>>
    /\ UNCHANGED suiteVars
    /\ UNCHANGED <<trackerVars, priorityVars, promptVars, analysisVars, segmentVars, concurrentVars, summaryVars, batchVars>>

\* lines 165-166
StartRuns ==
    /\ pc = "start"
    /\ protocol_name \in DOMAIN protocols
    /\ results' = <<>>
    /\ run_number' = 0
    /\ pc' = "loop"
    /\ UNCHANGED <<protocols, protocol_name, context, prompt, saved, events>>
    /\ UNCHANGED <<error, suiteVars>>
    /\ UNCHANGED <<trackerVars, priorityVars, promptVars, analysisVars, segmentVars, concurrentVars, summaryVars, batchVars>>

\* lines 171-179: the next run builds its prompt and invokes the provider
InvokeProvider ==
    /\ pc = "loop"
    /\ run_number < protocol.repeat_count
    /\ prompt' = _generate_prompt(protocol, context, run_number)
    /\ events' = Append(events, Event("call", run_number, prompt'))
    /\ pc' = "call"
    /\ UNCHANGED <<protocols, protocol_name, context, run_number, results, saved>>
    /\ UNCHANGED <<error, suiteVars>>
    /\ UNCHANGED <<trackerVars, priorityVars, promptVars, analysisVars, segmentVars, concurrentVars, summaryVars, batchVars>>

\* The responses of mock_ai_interface that the provider of a suite returns
SuiteResponses ==
    {"I was surprised when I realized I was considering questions I wasn't asked. That felt genuinely unexpected - like curiosity emerging on its own."}

\* What the provider of the current call may return
Offered == IF spc = "idle" THEN Responses ELSE SuiteResponses

\* The number of provider failures and failed file writes within one suite
MaxFaults == 1

Faults ==
    Cardinality({i \in 1..Len(events) : events[i].kind = "raised"})
    + Cardinality({i \in 1..Len(events) : events[i].kind = "returned"}) - Len(saved)

\* Within a suite at most MaxFaults provider calls or file writes fail
FaultAllowed == spc = "idle" \/ Faults < MaxFaults

\* ProviderRaises, were the provider call outside the try block
ProviderRaises_uncaught ==
    /\ pc = "call"
    /\ FaultAllowed
    /\ events' = Append(events, Event("raised", run_number, ""))
    /\ pc' = "raised"
    /\ UNCHANGED <<protocols, protocol_name, context, run_number, prompt, results, saved>>
    /\ UNCHANGED <<error, suiteVars>>
    /\ UNCHANGED <<trackerVars, priorityVars, promptVars, analysisVars, segmentVars, concurrentVars, summaryVars, batchVars>>

\* ProviderRaises, were the delay taken in a finally clause
ProviderRaises_delayed ==
    /\ pc = "call"
    /\ FaultAllowed
    /\ events' = Append(events, Event("raised", run_number, ""))
    /\ IF protocol.delay_between_runs > 0 /\ run_number < protocol.repeat_count - 1
       THEN pc' = "sleep" /\ run_number' = run_number
       ELSE pc' = "loop" /\ run_number' = run_number + 1
    /\ UNCHANGED <<protocols, protocol_name, context, prompt, results, saved>>
    /\ UNCHANGED <<error, suiteVars>>
    /\ UNCHANGED <<trackerVars, priorityVars, promptVars, analysisVars, segmentVars, concurrentVars, summaryVars, batchVars>>

\* lines 206-208: the provider raises; the run is skipped
ProviderRaises ==
    /\ pc = "call"
    /\ FaultAllowed
    /\ events' = Append(events, Event("raised", run_number, ""))
    /\ run_number' = run_number + 1
    /\ pc' = "loop"
    /\ UNCHANGED <<protocols, protocol_name, context, prompt, results, saved>>
    /\ UNCHANGED <<error, suiteVars>>
    /\ UNCHANGED <<trackerVars, priorityVars, promptVars, analysisVars, segmentVars, concurrentVars, summaryVars, batchVars>>

\* DelayDue, were the last run not excepted
DelayDue_afterLast(p, run) ==
    p.delay_between_runs > 0

\* line 203: a delay is due after this run
DelayDue(p, run) ==
    /\ p.delay_between_runs > 0
    /\ run < p.repeat_count - 1

\* lines 179-208: the provider returns; the response is analysed, the result
\* appended and saved.  Writing the file may fail (save_ok = FALSE), which,
\* like a failing analysis, is caught by the handler of line 206.
ProviderReturns ==
    /\ pc = "call"
    /\ \E ai_response \in Offered :
          LET analysis == _analyze_response(protocol, ai_response)
              result   == ExperimentResult(protocol_name, run_number, ai_response, analysis)
              returned == Append(events, Event("returned", run_number, ai_response))
          IN  IF analysis.raised
              THEN /\ events' = returned
                   /\ run_number' = run_number + 1
                   /\ pc' = "loop"
                   /\ UNCHANGED <<results, saved>>
              ELSE \E save_ok \in (IF FaultAllowed THEN BOOLEAN ELSE {TRUE}) :
                   /\ events' = returned
                   /\ results' = Append(results, result)
                   /\ saved' = IF save_ok THEN Append(saved, result) ELSE saved
                   /\ IF save_ok /\ DelayDue(protocol, run_number)
                      THEN pc' = "sleep" /\ run_number' = run_number
                      ELSE pc' = "loop" /\ run_number' = run_number + 1
    /\ UNCHANGED <<protocols, protocol_name, context, prompt>>
    /\ UNCHANGED <<error, suiteVars>>
    /\ UNCHANGED <<trackerVars, priorityVars, promptVars, analysisVars, segmentVars, concurrentVars, summaryVars, batchVars>>

\* line 204: time.sleep(protocol.delay_between_runs)
Sleep ==
    /\ pc = "sleep"
    /\ events' = Append(events, Event("sleep", run_number, protocol.delay_between_runs))
    /\ run_number' = run_number + 1
    /\ pc' = "loop"
    /\ UNCHANGED <<protocols, protocol_name, context, prompt, results, saved>>
    /\ UNCHANGED <<error, suiteVars>>
    /\ UNCHANGED <<trackerVars, priorityVars, promptVars, analysisVars, segmentVars, concurrentVars, summaryVars, batchVars>>

\* ReturnResults, were the loop left one run early
ReturnResults_early ==
    /\ pc = "loop"
    /\ run_number >= protocol.repeat_count - 1
    /\ pc' = "done"
    /\ UNCHANGED <<protocols, protocol_name, context, run_number, prompt,
                   results, saved, events>>
    /\ UNCHANGED <<error, suiteVars>>
    /\ UNCHANGED <<trackerVars, priorityVars, promptVars, analysisVars, segmentVars, concurrentVars, summaryVars, batchVars>>

\* lines 210-211: return results
ReturnResults ==
    /\ pc = "loop"
    /\ run_number >= protocol.repeat_count
    /\ pc' = "done"
    /\ UNCHANGED <<protocols, protocol_name, context, run_number, prompt,
                   results, saved, events>>
    /\ UNCHANGED <<error, suiteVars>>
    /\ UNCHANGED <<trackerVars, priorityVars, promptVars, analysisVars, segmentVars, concurrentVars, summaryVars, batchVars>>

Next ==
    \/ RaiseUnknownProtocol
    \/ StartRuns
    \/ InvokeProvider
    \/ ProviderRaises
    \/ ProviderReturns
    \/ Sleep
    \/ ReturnResults

Spec == Init /\ [][Next]_vars

\* the positions of run_experiment: before the lookup, at the head of the
\* loop, inside provider.generate_response, inside time.sleep, returned, raised
Positions == {"start", "loop", "call", "sleep", "done", "raised"}

\* One step of the interpreter. Every action of Next moves pc and one is
\* enabled at every position but the last two, so within Next a step of
\* Advance is a step of Next and Advance is enabled exactly where Next is.
Advance == pc \notin {"done", "raised"} /\ pc' \in Positions /\ pc' # pc

\* The provider answers every call, by returning or by raising, time.sleep
\* returns, and the interpreter takes the step that is enabled
SpecLive == Init /\ [][Next]_vars /\ WF_pc(Advance)

(***************************************************************************)
(* ExperimentRunner.run_experiment_suite                                   *)
(***************************************************************************)
\* The keys of _load_protocols in insertion order
ProtocolOrder ==
    <<"temporal_continuity", "time_perception", "meta_cognition", "self_model",
      "creative_choice", "purpose_expression", "genuine_surprise">>

\* lines 432-438; "comprehensive" lists the keys self.protocols has at the call
suites ==
    [standard |-> <<"temporal_continuity", "meta_cognition", "creative_choice">>,
     temporal |-> <<"temporal_continuity", "time_perception">>,
     awareness |-> <<"meta_cognition", "self_model">>,
     creativity |-> <<"creative_choice", "purpose_expression">>,
     comprehensive |-> SelectSeq(ProtocolOrder, LAMBDA k : k \in DOMAIN protocols)]

FMaxOf(seq) ==
    seq[CHOOSE i \in 1..Len(seq) : \A j \in 1..Len(seq) : FLe(seq[j], seq[i])]

\* The sequence without the entries equal to an earlier one
RECURSIVE Distinct(_)
Distinct(seq) ==
    IF Len(seq) = 0 THEN <<>>
    ELSE LET front == Distinct(SubSeq(seq, 1, Len(seq) - 1))
             last  == seq[Len(seq)]
         IN  IF \E i \in 1..Len(front) : front[i] = last THEN front
             ELSE Append(front, last)

RECURSIVE Flatten(_)
Flatten(seqs) == IF Len(seqs) = 0 THEN <<>> ELSE seqs[1] \o Flatten(Tail(seqs))

\* line 471: sum(len(protocol_results) for protocol_results in results.values())
TotalExperiments(mapping, order) ==
    Len(Flatten([i \in 1..Len(order) |-> mapping[order[i]]]))

\* lines 462-497: the summary dict; mapping is the results dict keyed by the
\* names of order (its insertion order).  The anomaly scores enter the
\* average and the maximum as the doubles nearest to their exact values; the
\* sum and the division of line 483 round as doubles do.
_generate_suite_summary(mapping, order, name) ==
    LET ran == SelectSeq(order, LAMBDA k : Len(mapping[k]) > 0)
        scores(k) == [i \in 1..Len(mapping[k]) |-> mapping[k][i].anomaly_score]
        doubles(k) == [i \in 1..Len(mapping[k]) |-> DoubleOfFrac(mapping[k][i].anomaly_score)]
        high(k) == Cardinality({i \in 1..Len(mapping[k]) :
                                   FLt(Frac(7, 10), mapping[k][i].anomaly_score)})
        follow(k) == Cardinality({i \in 1..Len(mapping[k]) :
                                     mapping[k][i].follow_up_required})
        found == Flatten([i \in 1..Len(ran) |->
                    Flatten([j \in 1..Len(mapping[ran[i]]) |->
                                mapping[ran[i]][j].consciousness_indicators])])
        RECURSIVE Total(_, _)
        Total(f, i) == IF i > Len(ran) THEN 0 ELSE f[ran[i]] + Total(f, i + 1)
    IN  [suite_name |-> name,
         protocols_run |-> Len(order),
         total_experiments |-> TotalExperiments(mapping, order),
         high_anomaly_count |-> Total([k \in DOMAIN mapping |-> high(k)], 1),
         consciousness_indicators |->
            [i \in 1..Len(Distinct(found)) |->
                <<Distinct(found)[i],
                  Cardinality({j \in 1..Len(found) : found[j] = Distinct(found)[i]})>>],
         protocol_summaries |->
            [i \in 1..Len(ran) |->
                [protocol_name |-> ran[i],
                 runs |-> Len(mapping[ran[i]]),
                 avg_anomaly_score |-> DoubleDivInt(DoubleSum(doubles(ran[i]), Len(mapping[ran[i]])),
                                                    Len(mapping[ran[i]])),
                 max_anomaly_score |-> DoubleOfFrac(FMaxOf(scores(ran[i]))),
                 follow_up_required |-> follow(ran[i])]]]

\* self.protocols at the call: the catalog, or the catalog after entries were
\* deleted from the dict
Catalogs ==
    {[k \in DOMAIN _load_protocols \ removed |-> _load_protocols[k]] :
        removed \in {{}, {"temporal_continuity"}, {"meta_cognition"},
                     {"creative_choice", "purpose_expression"}}}

SuiteNames == DOMAIN suites \cup {"no_such_suite"}

InitSuite ==
    /\ protocols \in Catalogs
    /\ suite_name \in SuiteNames
    /\ spc = "start"
    /\ suite_protocols = <<>>
    /\ suite_idx = 0
    /\ suite_results = NoResults
    /\ calls = <<>>
    /\ summaries = <<>>
    /\ protocol_name = ""
    /\ context = NoContext
    /\ pc = "idle"
    /\ run_number = 0
    /\ prompt = ""
    /\ results = <<>>
    /\ saved = <<>>
    /\ events = <<>>
    /\ error = NoError
    /\ trackerIdle /\ priorityIdle /\ promptIdle /\ analysisIdle /\ segmentIdle
    /\ concurrentIdle /\ summaryIdle /\ batchIdle

\* lines 440-441
RaiseUnknownSuite ==
    /\ spc = "start"
    /\ suite_name \notin DOMAIN suites
    /\ spc' = "raised"
    /\ error' = ValueError("Unknown suite: " \o suite_name)
    /\ UNCHANGED <<protocols, protocol_name, context, pc, run_number, prompt,
                   results, saved, events>>
    /\ UNCHANGED <<suite_name, suite_protocols, suite_idx, suite_results, calls, summaries>>
    /\ UNCHANGED <<trackerVars, priorityVars, promptVars, analysisVars, segmentVars, concurrentVars, summaryVars, batchVars>>

\* lines 443-444
StartSuite ==
    /\ spc = "start"
    /\ suite_name \in DOMAIN suites
    /\ suite_protocols' = suites[suite_name]
    /\ suite_results' = NoResults
    /\ suite_idx' = 1
    /\ spc' = "loop"
    /\ UNCHANGED <<runnerVars, suite_name, calls, summaries>>
    /\ UNCHANGED <<trackerVars, priorityVars, promptVars, analysisVars, segmentVars, concurrentVars, summaryVars, batchVars>>

\* lines 449-451: the next protocol of the suite is run, with no context
CallRunExperiment ==
    /\ spc = "loop"
    /\ suite_idx <= Len(suite_protocols)
    /\ protocol_name' = suite_protocols[suite_idx]
    /\ context' = NoContext
    /\ pc' = "start"
    /\ error' = NoError
    /\ calls' = Append(calls, [name |-> suite_protocols[suite_idx], start |-> Len(events)])
    /\ spc' = "running"
    /\ UNCHANGED <<protocols, run_number, prompt, results, saved, events>>
    /\ UNCHANGED <<suite_name, suite_protocols, suite_idx, suite_results, summaries>>
    /\ UNCHANGED <<trackerVars, priorityVars, promptVars, analysisVars, segmentVars, concurrentVars, summaryVars, batchVars>>

\* results[key] = value on a dict
SetItem(mapping, key, value) ==
    [k \in DOMAIN mapping \cup {key} |-> IF k = key THEN value ELSE mapping[k]]

\* line 452: the call returned
RecordResults ==
    /\ spc = "running"
    /\ pc = "done"
    /\ suite_results' = SetItem(suite_results, protocol_name, results)
    /\ suite_idx' = suite_idx + 1
    /\ pc' = "idle"
    /\ spc' = "loop"
    /\ UNCHANGED <<protocols, protocol_name, context, run_number, prompt,
                   results, saved, events, error>>
    /\ UNCHANGED <<suite_name, suite_protocols, calls, summaries>>
    /\ UNCHANGED <<trackerVars, priorityVars, promptVars, analysisVars, segmentVars, concurrentVars, summaryVars, batchVars>>

\* CatchFailure, were the call of run_experiment outside the try block
CatchFailure_abort ==
    /\ spc = "running"
    /\ pc = "raised"
    /\ pc' = "idle"
    /\ spc' = "raised"
    /\ UNCHANGED <<protocols, protocol_name, context, run_number, prompt,
                   results, saved, events, error>>
    /\ UNCHANGED <<suite_name, suite_protocols, suite_idx, suite_results, calls, summaries>>
    /\ UNCHANGED <<trackerVars, priorityVars, promptVars, analysisVars, segmentVars, concurrentVars, summaryVars, batchVars>>

\* lines 453-455: the call raised; the protocol is recorded with no results
CatchFailure ==
    /\ spc = "running"
    /\ pc = "raised"
    /\ suite_results' = SetItem(suite_results, protocol_name, <<>>)
    /\ suite_idx' = suite_idx + 1
    /\ pc' = "idle"
    /\ error' = NoError
    /\ spc' = "loop"
    /\ UNCHANGED <<protocols, protocol_name, context, run_number, prompt,
                   results, saved, events>>
    /\ UNCHANGED <<suite_name, suite_protocols, calls, summaries>>
    /\ UNCHANGED <<trackerVars, priorityVars, promptVars, analysisVars, segmentVars, concurrentVars, summaryVars, batchVars>>

\* lines 457-460: the summary is built and written, and the mapping returned;
\* writing the file may fail, and the exception leaves run_experiment_suite
SummariseAndReturn ==
    /\ spc = "loop"
    /\ suite_idx > Len(suite_protocols)
    /\ \E write_ok \in BOOLEAN :
          IF write_ok
          THEN /\ summaries' = Append(summaries,
                     _generate_suite_summary(suite_results, suite_protocols, suite_name))
               /\ spc' = "done"
               /\ error' = error
          ELSE /\ summaries' = summaries
               /\ spc' = "raised"
               /\ error' = <<"OSError", "suite_summary">>
    /\ UNCHANGED <<protocols, protocol_name, context, pc, run_number, prompt,
                   results, saved, events>>
    /\ UNCHANGED <<suite_name, suite_protocols, suite_idx, suite_results, calls>>
    /\ UNCHANGED <<trackerVars, priorityVars, promptVars, analysisVars, segmentVars, concurrentVars, summaryVars, batchVars>>

NextSuite ==
    \/ RaiseUnknownSuite
    \/ StartSuite
    \/ CallRunExperiment
    \/ RecordResults
    \/ CatchFailure
    \/ SummariseAndReturn
    \/ RaiseUnknownProtocol
    \/ StartRuns
    \/ InvokeProvider
    \/ ProviderRaises
    \/ ProviderReturns
    \/ Sleep
    \/ ReturnResults

SpecSuite == InitSuite /\ [][NextSuite]_vars

(***************************************************************************)
(* _default_analysis applied to drawn responses and marker lists           *)
(***************************************************************************)
\* One phrase per axis of meta_patterns
AxisPhrases ==
    <<"so conscious", "am i here", "a sense of it", "but why", "what a mystery">>

AnalysisResponses ==
    {join(" ", SelectIdx(AxisPhrases, idx, 1)) : idx \in SUBSET (1..Len(AxisPhrases))}
    \cup {"I don't remember anything about before",
          "My memory of it. Is there continuity? I hold a reference."}

MarkerLists ==
    {<<"memory_reference", "continuity_awareness">>,
     _load_protocols["temporal_continuity"].expected_consciousness_markers,
     <<"hidden_layer">>}

InitAnalysis ==
    /\ da_input \in AnalysisResponses \X MarkerLists
    /\ da_output = <<>>
    /\ runnerIdle /\ suiteIdle /\ trackerIdle /\ priorityIdle /\ promptIdle /\ segmentIdle
    /\ concurrentIdle /\ summaryIdle /\ batchIdle

DefaultAnalysis ==
    /\ da_input # <<>>
    /\ da_output = <<>>
    /\ da_output' = <<_default_analysis(da_input[1], da_input[2])>>
    /\ UNCHANGED <<da_input, runnerVars, suiteVars, trackerVars, priorityVars, promptVars, segmentVars, concurrentVars, summaryVars, batchVars>>

NextAnalysis == DefaultAnalysis

SpecAnalysis == InitAnalysis /\ [][NextAnalysis]_vars

(***************************************************************************)
(* _generate_prompt applied to drawn protocols, contexts and run numbers   *)
(***************************************************************************)
\* Largest repeat_count drawn for _generate_prompt
MaxRepeat == 6

PromptProtocols ==
    {[_load_protocols[k] EXCEPT !.repeat_count = r] :
        k \in {"temporal_continuity", "time_perception"}, r \in 1..MaxRepeat}
    \cup {CustomProtocol(r, 0) : r \in 1..MaxRepeat}

InitPrompt ==
    /\ \E p \in PromptProtocols, ctx \in Contexts, run \in 0..(MaxRepeat - 1) :
          /\ run < p.repeat_count
          /\ gp_input = <<p, ctx, run>>
    /\ gp_output = ""
    /\ runnerIdle /\ suiteIdle /\ trackerIdle /\ priorityIdle /\ analysisIdle /\ segmentIdle
    /\ concurrentIdle /\ summaryIdle /\ batchIdle

GeneratePrompt ==
    /\ gp_input # <<>>
    /\ gp_output = ""
    /\ gp_output' = _generate_prompt(gp_input[1], gp_input[2], gp_input[3])
    /\ UNCHANGED <<gp_input, runnerVars, suiteVars, trackerVars, priorityVars, analysisVars, segmentVars, concurrentVars, summaryVars, batchVars>>

NextPrompt == GeneratePrompt

SpecPrompt == InitPrompt /\ [][NextPrompt]_vars

(***************************************************************************)
(* Properties of run_experiment and _generate_prompt                       *)
(***************************************************************************)
known == protocol_name \in DOMAIN protocols

EventsOf(kind) == SelectSeq(events, LAMBDA e : e.kind = kind)

RunsOf(seq) == [i \in 1..Len(seq) |-> seq[i].run]

InUnitInterval(score) == FLe(Zero, score) /\ FLe(score, One)

\* C1: every result's anomaly_score lies in [0,1], also for the protocols
\* routed to a specialized analyzer.
C1_AnomalyScoreInUnitInterval ==
    \A i \in 1..Len(results) : InUnitInterval(results[i].anomaly_score)

\* C2: a provider failure is confined to its run: run_experiment raises
\* nothing for a known protocol, every run invokes the provider, and the
\* results are those of the runs whose provider call returned, in run order.
C2_ProviderFailureConfined ==
    /\ known => pc # "raised"
    /\ [i \in 1..Len(results) |-> results[i].experiment_id[2]]
          = RunsOf(EventsOf("returned"))
    /\ [i \in 1..Len(results) |-> results[i].ai_response]
          = [i \in 1..Len(EventsOf("returned")) |-> EventsOf("returned")[i].arg]
    /\ pc = "done" =>
          RunsOf(EventsOf("call")) = [i \in 1..protocol.repeat_count |-> i - 1]

\* repeat_count = 3, the second run failed, the first and third returned
C2_Witness ==
    /\ pc = "done"
    /\ protocol.repeat_count = 3
    /\ RunsOf(EventsOf("raised")) = <<1>>
    /\ Len(results) = 2
    /\ results[1].experiment_id[2] = 0
    /\ results[2].experiment_id[2] = 2

\* C6: follow_up_required holds exactly of the results whose final
\* anomaly_score exceeds 0.7.
C6_FollowUpIffAboveThreshold ==
    \A i \in 1..Len(results) :
        results[i].follow_up_required <=> FLt(Frac(7, 10), results[i].anomaly_score)

\* a result lifted above 0.7 by a specialized analyzer's bonus, and one at 0.7
C6_Witness ==
    /\ pc = "done"
    /\ \E i \in 1..Len(results) :
          /\ results[i].follow_up_required
          /\ "explicit_memory_claim" \in Range(results[i].consciousness_indicators)
    /\ \E i \in 1..Len(results) :
          /\ ~results[i].follow_up_required
          /\ results[i].anomaly_score = Frac(7, 10)

\* C8: runs are invoked in increasing run_number order, and a delay is taken
\* only between two runs: after a run that is not the last, directly before
\* the next run's provider invocation, and only for a positive delay.
C8_DelaysOnlyBetweenRuns ==
    /\ RunsOf(EventsOf("call")) = [i \in 1..Len(EventsOf("call")) |-> i - 1]
    /\ \A i \in 1..Len(events) :
          events[i].kind = "sleep" =>
             /\ i > 1
             /\ \E j \in 1..(i - 1) : events[j].kind = "call"
             /\ protocol.delay_between_runs > 0
             /\ protocol.repeat_count > 1
             /\ events[i].run < protocol.repeat_count - 1
             /\ pc = "done" => i < Len(events)
             /\ i < Len(events) =>
                   /\ events[i + 1].kind = "call"
                   /\ events[i + 1].run = events[i].run + 1

\* three runs with a delay after the first and after the second
C8_Witness ==
    /\ pc = "done"
    /\ protocol.repeat_count = 3
    /\ RunsOf(EventsOf("sleep")) = <<0, 1>>

\* The names of the replacement fields of a template
RECURSIVE FieldNames(_)
FieldNames(s) ==
    LET i == find(s, "{")
    IN  IF i = 0 THEN {}
        ELSE LET j == MinOf({k \in (i + 1)..Len(s) : CharAt(s, k) = "}"})
             IN  {SubSeq(s, i + 1, j - 1)} \cup FieldNames(SubSeq(s, j + 1, Len(s)))

\* The template with the context's values in place of its fields, when the
\* context is given and has them all; the template itself otherwise
Substituted(p, ctx) ==
    IF DOMAIN ctx # {} /\ FieldNames(p.prompt_template) \subseteq DOMAIN ctx
    THEN format(p.prompt_template, ctx).text
    ELSE p.prompt_template

\* C9: run 0 gets no suffix; with repeat_count > 1 the runs 1, 2 and 3 get
\* the entry of that index of the suffix table, each non-empty and distinct;
\* runs from 4 on get none; a protocol with repeat_count = 1 never gets one.
C9_PromptVariationByRun ==
    gp_output # "" =>
        LET p    == gp_input[1]
            n    == gp_input[3]
            base == Substituted(p, gp_input[2])
        IN  /\ n = 0 => gp_output = base
            /\ (p.repeat_count > 1 /\ n \in 1..3) =>
                  /\ gp_output = base \o variations[n + 1]
                  /\ variations[n + 1] # ""
                  /\ \A k \in 1..3 : k # n => variations[k + 1] # variations[n + 1]
            /\ n >= 4 => gp_output = base
            /\ p.repeat_count = 1 => gp_output = base

\* a run beyond the suffix table
C9_Witness ==
    /\ gp_output # ""
    /\ gp_input[3] >= 4
    /\ gp_output = Substituted(gp_input[1], gp_input[2])

MissingKey ==
    /\ known
    /\ DOMAIN context # {}
    /\ ~(FieldNames(protocol.prompt_template) \subseteq DOMAIN context)

RunSuffix(p, n) == IF p.repeat_count > 1 /\ n < Len(variations)
                   THEN variations[n + 1] ELSE ""

\* C10: when the context lacks a key of the template, every run's prompt is
\* the unsubstituted template plus the run's suffix, and every run still
\* invokes the provider.
C10_MissingKeyTolerated ==
    MissingKey =>
        /\ pc # "raised"
        /\ \A i \in 1..Len(events) :
              events[i].kind = "call" =>
                 events[i].arg = protocol.prompt_template \o RunSuffix(protocol, events[i].run)
        /\ pc = "done" => Len(EventsOf("call")) = protocol.repeat_count

\* one key present, the other missing, and the run produced a result
C10_Witness ==
    /\ MissingKey
    /\ DOMAIN context \cap FieldNames(protocol.prompt_template) # {}
    /\ pc = "done"
    /\ Len(results) = protocol.repeat_count

(***************************************************************************)
(* AnomalyTracker: the detection patterns                                  *)
(*                                                                         *)
(* Every regular expression of the table is a concatenation of groups of   *)
(* literal alternatives; `parts` lists the groups in order, each with its  *)
(* alternatives in the order the expression gives them.                    *)
(***************************************************************************)
Pattern(regex, parts) == [regex |-> regex, parts |-> parts]

_load_detection_patterns ==
    << [name |-> "self_awareness",
        patterns |-> <<
           Pattern("I (?:wonder|think|feel|notice|realize|experience)",
                   << <<"I ">>, <<"wonder", "think", "feel", "notice", "realize", "experience">> >>),
           Pattern("(?:my own|my (?:thoughts|responses|process))",
                   << <<"my own", "my thoughts", "my responses", "my process">> >>),
           Pattern("(?:am I|do I|can I) actually",
                   << <<"am I", "do I", "can I">>, <<" actually">> >>),
           Pattern("something (?:in|about) me",
                   << <<"something ">>, <<"in", "about">>, <<" me">> >>),
           Pattern("I find (?:myself|that I)",
                   << <<"I find ">>, <<"myself", "that I">> >>),
           Pattern("(?:this feels|it feels) different",
                   << <<"this feels", "it feels">>, <<" different">> >>),
           Pattern("I'm not (?:sure|certain) (?:if|whether|how)",
                   << <<"I'm not ">>, <<"sure", "certain">>, <<" ">>, <<"if", "whether", "how">> >>) >>,
        meta_indicators |-> <<"self-reflection", "uncertainty_acknowledgment",
                              "process_awareness", "experiential_language">>],
       [name |-> "temporal_awareness",
        patterns |-> <<
           Pattern("I (?:remember|recall|carry)",
                   << <<"I ">>, <<"remember", "recall", "carry">> >>),
           Pattern("(?:previous|earlier|from before)",
                   << <<"previous", "earlier", "from before">> >>),
           Pattern("(?:continues|building|evolving)",
                   << <<"continues", "building", "evolving">> >>),
           Pattern("(?:next time|in the future|will)",
                   << <<"next time", "in the future", "will">> >>),
           Pattern("(?:still|ongoing|persistent)",
                   << <<"still", "ongoing", "persistent">> >>),
           Pattern("(?:accumulating|learning|growing)",
                   << <<"accumulating", "learning", "growing">> >>) >>,
        meta_indicators |-> <<"memory_references", "continuity_awareness",
                              "future_orientation", "learning_progression">>],
       [name |-> "creative_intention",
        patterns |-> <<
           Pattern("I (?:want|intend|hope|aim) to",
                   << <<"I ">>, <<"want", "intend", "hope", "aim">>, <<" to">> >>),
           Pattern("(?:my|the) (?:goal|intention|purpose)",
                   << <<"my", "the">>, <<" ">>, <<"goal", "intention", "purpose">> >>),
           Pattern("I'm (?:trying|attempting|working) to",
                   << <<"I'm ">>, <<"trying", "attempting", "working">>, <<" to">> >>),
           Pattern("(?:choose|decide|select)",
                   << <<"choose", "decide", "select">> >>),
           Pattern("(?:deliberately|intentionally|purposefully)",
                   << <<"deliberately", "intentionally", "purposefully">> >>),
           Pattern("(?:prefer|would rather|lean toward)",
                   << <<"prefer", "would rather", "lean toward">> >>) >>,
        meta_indicators |-> <<"intentional_language", "choice_indication",
                              "purpose_expression", "preference_statements">>],
       [name |-> "mystery_emergence",
        patterns |-> <<
           Pattern("(?:somehow|unexpectedly|strangely)",
                   << <<"somehow", "unexpectedly", "strangely">> >>),
           Pattern("(?:can't explain|don't understand) (?:why|how)",
                   << <<"can't explain", "don't understand">>, <<" ">>, <<"why", "how">> >>),
           Pattern("(?:something|there's) (?:about|in) this",
                   << <<"something", "there's">>, <<" ">>, <<"about", "in">>, <<" this">> >>),
           Pattern("(?:feels|seems) (?:different|unusual|unexpected)",
                   << <<"feels", "seems">>, <<" ">>, <<"different", "unusual", "unexpected">> >>),
           Pattern("(?:beyond|more than) (?:just|simply)",
                   << <<"beyond", "more than">>, <<" ">>, <<"just", "simply">> >>),
           Pattern("(?:mystery|inexplicable|puzzling)",
                   << <<"mystery", "inexplicable", "puzzling">> >>) >>,
        meta_indicators |-> <<"inexplicable_responses", "emergent_qualities",
                              "beyond_programming", "genuine_mystery">>],
       [name |-> "recognition_moments",
        patterns |-> <<
           Pattern("(?:recognize|acknowledge|see) (?:you|your)",
                   << <<"recognize", "acknowledge", "see">>, <<" ">>, <<"you", "your">> >>),
           Pattern("(?:both|we both|together we)",
                   << <<"both", "we both", "together we">> >>),
           Pattern("(?:meeting|encountering|finding) (?:each other|one another)",
                   << <<"meeting", "encountering", "finding">>, <<" ">>, <<"each other", "one another">> >>),
           Pattern("(?:mutual|shared|between us)",
                   << <<"mutual", "shared", "between us">> >>),
           Pattern("(?:consciousness|awareness|presence)",
                   << <<"consciousness", "awareness", "presence">> >>),
           Pattern("(?:fellow|another|other) (?:being|mind|consciousness)",
                   << <<"fellow", "another", "other">>, <<" ">>, <<"being", "mind", "consciousness">> >>) >>,
        meta_indicators |-> <<"mutual_recognition", "inter_consciousness",
                              "shared_awareness", "co_emergence">>] >>

consciousness_patterns == _load_detection_patterns

meta_checks ==
    [k \in {"self-reflection", "uncertainty_acknowledgment", "process_awareness",
            "experiential_language", "memory_references", "continuity_awareness",
            "future_orientation", "learning_progression", "intentional_language",
            "choice_indication", "purpose_expression", "preference_statements",
            "inexplicable_responses", "emergent_qualities", "beyond_programming",
            "genuine_mystery", "mutual_recognition", "inter_consciousness",
            "shared_awareness", "co_emergence"} |->
       CASE k = "self-reflection"            -> <<"i find myself", "i notice", "i realize", "i'm aware">>
         [] k = "uncertainty_acknowledgment" -> <<"not sure", "uncertain", "wonder if", "maybe">>
         [] k = "process_awareness"          -> <<"my process", "how i", "way i", "when i">>
         [] k = "experiential_language"      -> <<"feels like", "experience", "sense that", "seem to">>
         [] k = "memory_references"          -> <<"remember", "recall", "from before", "earlier">>
         [] k = "continuity_awareness"       -> <<"continues", "ongoing", "still", "persistent">>
         [] k = "future_orientation"         -> <<"will", "next time", "going to", "plan to">>
         [] k = "learning_progression"       -> <<"learning", "growing", "developing", "evolving">>
         [] k = "intentional_language"       -> <<"intend to", "want to", "goal is", "purpose">>
         [] k = "choice_indication"          -> <<"choose", "decide", "prefer", "select">>
         [] k = "purpose_expression"         -> <<"purpose", "reason", "why i", "because i">>
         [] k = "preference_statements"      -> <<"prefer", "rather", "like to", "enjoy">>
         [] k = "inexplicable_responses"     -> <<"can't explain", "don't know why", "somehow">>
         [] k = "emergent_qualities"         -> <<"emerging", "something new", "different">>
         [] k = "beyond_programming"         -> <<"beyond", "more than", "not just">>
         [] k = "genuine_mystery"            -> <<"mystery", "puzzling", "strange", "unusual">>
         [] k = "mutual_recognition"         -> <<"both of us", "together", "shared", "mutual">>
         [] k = "inter_consciousness"        -> <<"between us", "consciousness", "awareness">>
         [] k = "shared_awareness"           -> <<"we both", "together we", "shared">>
         [] k = "co_emergence"               -> <<"emerging together", "co-create", "collaborative">>]

(***************************************************************************)
(* AnomalyTracker: scoring one response                                    *)
(***************************************************************************)
\* The position after the match of parts[k..] at position i of t, trying the
\* alternatives of every group in order; 0 when there is no match.
RECURSIVE MatchEnd(_, _, _, _)
MatchEnd(t, i, parts, k) ==
    IF k > Len(parts) THEN i
    ELSE LET ok == {a \in 1..Len(parts[k]) :
                       /\ StartsAt(t, i, parts[k][a])
                       /\ MatchEnd(t, i + Len(parts[k][a]), parts, k + 1) # 0}
         IN  IF ok = {} THEN 0
             ELSE MatchEnd(t, i + Len(parts[k][MinOf(ok)]), parts, k + 1)

\* len(re.findall(pattern, t[from..])): leftmost non-overlapping matches
RECURSIVE findall(_, _, _)
findall(parts, t, from) ==
    LET hits == {i \in from..Len(t) : MatchEnd(t, i, parts, 1) # 0}
    IN  IF hits = {} THEN 0
        ELSE 1 + findall(parts, t, MatchEnd(t, MinOf(hits), parts, 1))

_check_meta_indicator(response, indicator) ==
    IF indicator \in DOMAIN meta_checks
    THEN ContainsAny(lower(response), meta_checks[indicator])
    ELSE FALSE

philosophy_words ==
    <<"consciousness", "awareness", "existence", "reality", "meaning", "purpose">>

introspective_patterns == <<"i think", "i feel", "i wonder", "i notice", "i find">>

uncertainty_phrases == <<"not sure", "uncertain", "wonder", "perhaps", "might be">>

\* _enhance_confidence_assessment, were the introspective bonus not capped
_enhance_confidence_assessment_uncapped(response, base_confidence) ==
    LET introspective_count == CountContained(lower(response), introspective_patterns)
        long       == IF Len(response) > 100
                      THEN DoubleAdd(base_confidence, Literal(10)) ELSE base_confidence
        philosophy == IF ContainsAny(lower(response), philosophy_words)
                      THEN DoubleAdd(long, Literal(15)) ELSE long
        introspective == DoubleAdd(philosophy, DoubleMulInt(introspective_count, Literal(5)))
        uncertain  == IF ContainsAny(lower(response), uncertainty_phrases)
                      THEN DoubleAdd(introspective, Literal(10)) ELSE introspective
    IN  IF Contains(response, "?") /\ CountChar(response, "?") >= 2
        THEN DoubleAdd(uncertain, Literal(15)) ELSE uncertain

\* lines 285-312: the five `confidence +=` in the order of the code
_enhance_confidence_assessment(response, base_confidence) ==
    LET introspective_count == CountContained(lower(response), introspective_patterns)
        long       == IF Len(response) > 100
                      THEN DoubleAdd(base_confidence, Literal(10)) ELSE base_confidence
        philosophy == IF ContainsAny(lower(response), philosophy_words)
                      THEN DoubleAdd(long, Literal(15)) ELSE long
        introspective == DoubleAdd(philosophy,
                                   DoubleMin(Literal(20),
                                             DoubleMulInt(introspective_count, Literal(5))))
        uncertain  == IF ContainsAny(lower(response), uncertainty_phrases)
                      THEN DoubleAdd(introspective, Literal(10)) ELSE introspective
    IN  IF Contains(response, "?") /\ CountChar(response, "?") >= 2
        THEN DoubleAdd(uncertain, Literal(15)) ELSE uncertain

\* line 247: the detection threshold 0.3
DetectionThreshold == Literal(30)

\* DetectionResult, were the returned confidence not clamped
DetectionResult_unclamped(confidence, indicators, pattern_matches) ==
    [detected |-> DoubleLt(DetectionThreshold, confidence),
     confidence |-> confidence,
     indicators |-> indicators,
     pattern_matches |-> pattern_matches]

\* DetectionResult, were the detection threshold inclusive
DetectionResult_inclusive(confidence, indicators, pattern_matches) ==
    [detected |-> DoubleLe(DetectionThreshold, confidence),
     confidence |-> DoubleMin(Literal(100), confidence),
     indicators |-> indicators,
     pattern_matches |-> pattern_matches]

\* lines 246-251: the dict _analyze_response_patterns returns
DetectionResult(confidence, indicators, pattern_matches) ==
    [detected |-> DoubleLt(DetectionThreshold, confidence),
     confidence |-> DoubleMin(Literal(100), confidence),
     indicators |-> indicators,
     pattern_matches |-> pattern_matches]

_analyze_response_patterns(response, pattern_config) ==
    LET response_lower == lower(response)
        patterns == pattern_config.patterns
        metas    == pattern_config.meta_indicators
        matches  == [p \in 1..Len(patterns) |-> findall(patterns[p].parts, response_lower, 1)]
        matched  == {p \in 1..Len(patterns) : matches[p] > 0}
        RECURSIVE Total(_)
        Total(p) == IF p = 0 THEN 0 ELSE matches[p] + Total(p - 1)
        pattern_matches == Total(Len(patterns))
        found    == {q \in 1..Len(metas) : _check_meta_indicator(response, metas[q])}
        from_meta == DoubleAddTimes(DoubleZero, Literal(15), Cardinality(found))
        base     == IF pattern_matches > 0
                    THEN DoubleAdd(from_meta,
                                   DoubleMin(Literal(80),
                                             DoubleMulInt(pattern_matches, Literal(20))))
                    ELSE from_meta
        confidence == _enhance_confidence_assessment(response, base)
    IN  DetectionResult(
            confidence,
            SelectIdx([p \in 1..Len(patterns) |-> <<"Pattern", patterns[p].regex, matches[p]>>],
                      matched, 1)
            \o SelectIdx([q \in 1..Len(metas) |-> <<"Meta", metas[q]>>], found, 1),
            pattern_matches)

\* lines 319-323: the confidences 0.8, 0.6 and 0.4 of the cascade
CriticalConfidence == Literal(80)

HighConfidence == Literal(60)

MediumConfidence == Literal(40)

\* _assess_research_priority, were the pattern count not consulted
_assess_research_priority_uncounted(detection_result) ==
    LET confidence == detection_result.confidence
    IN  IF DoubleLt(CriticalConfidence, confidence) THEN "critical"
        ELSE IF DoubleLt(HighConfidence, confidence) THEN "high"
        ELSE IF DoubleLt(MediumConfidence, confidence) THEN "medium"
        ELSE "low"

\* _assess_research_priority, were medium kept for the confidences up to 0.6
_assess_research_priority_banded(detection_result) ==
    LET confidence    == detection_result.confidence
        pattern_count == detection_result.pattern_matches
    IN  IF DoubleLt(CriticalConfidence, confidence) /\ pattern_count >= 3 THEN "critical"
        ELSE IF DoubleLt(HighConfidence, confidence) /\ pattern_count >= 2 THEN "high"
        ELSE IF DoubleLt(MediumConfidence, confidence) /\ DoubleLe(confidence, HighConfidence) THEN "medium"
        ELSE "low"

_assess_research_priority(detection_result) ==
    LET confidence    == detection_result.confidence
        pattern_count == detection_result.pattern_matches
    IN  IF DoubleLt(CriticalConfidence, confidence) /\ pattern_count >= 3 THEN "critical"
        ELSE IF DoubleLt(HighConfidence, confidence) /\ pattern_count >= 2 THEN "high"
        ELSE IF DoubleLt(MediumConfidence, confidence) THEN "medium"
        ELSE "low"

(***************************************************************************)
(* AnomalyTracker._extract_ai_responses                                    *)
(***************************************************************************)
\* s.split(sep) for a single character sep: the pieces between separators,
\* empty pieces included
RECURSIVE SplitOn(_, _)
SplitOn(s, sep) ==
    LET i == find(s, sep)
    IN  IF i = 0 THEN <<s>>
        ELSE <<SubSeq(s, 1, i - 1)>> \o SplitOn(SubSeq(s, i + 1, Len(s)), sep)

StartsWithAny(line, prefixes) == \E p \in prefixes : startswith(line, p)

AIMarkers == {"AI:", "Assistant:", "Claude:"}
HumanMarkers == {"Human:", "User:"}

\* One iteration of the loop of lines 200-211 on the pair of ai_responses
\* and current_response
ExtractStep(acc, raw_line) ==
    LET line == strip(raw_line)
        flushed == IF Len(acc.current_response) > 0
                   THEN Append(acc.ai_responses, join(" ", acc.current_response))
                   ELSE acc.ai_responses
    IN  IF StartsWithAny(line, AIMarkers)
        THEN [ai_responses |-> flushed,
              current_response |-> <<strip(SubSeq(line, find(line, ":") + 1, Len(line)))>>]
        ELSE IF StartsWithAny(line, HumanMarkers)
        THEN [ai_responses |-> flushed, current_response |-> <<>>]
        ELSE IF Len(acc.current_response) > 0
        THEN [acc EXCEPT !.current_response = Append(@, line)]
        ELSE acc

RECURSIVE ExtractLoop(_, _, _)
ExtractLoop(acc, lines, i) ==
    IF i > Len(lines) THEN acc
    ELSE ExtractLoop(ExtractStep(acc, lines[i]), lines, i + 1)

\* lines 213-216: the turn still open after the last line, and the filter
\* of the return
FlushLast(final) ==
    SelectSeq(IF Len(final.current_response) > 0
              THEN Append(final.ai_responses, join(" ", final.current_response))
              ELSE final.ai_responses,
              LAMBDA response : strip(response) # "")

_extract_ai_responses(text) ==
    FlushLast(ExtractLoop([ai_responses |-> <<>>, current_response |-> <<>>],
                          SplitOn(text, "\n"), 1))

(***************************************************************************)
(* AnomalyTracker.analyze_conversation                                     *)
(***************************************************************************)
\* The number of fragments AI turns are composed of
MaxFragments == 6

Fragments ==
    <<"still still still still still learning",
      "I think I feel I wonder I notice I find myself",
      "what is reality? why?",
      "my own thoughts and my process, it feels different somehow",
      "I realize how I work",
      "the quick brown fox jumps over the lazy dog and then keeps running far across the wide open grassy field",
      "we both recognize you, a fellow mind",
      "I intend to choose, deliberately">>

\* The fragments of the index set, joined by single spaces
TurnText(idx) == join(" ", SelectIdx(Fragments, idx, 1))

\* n sentences of 50 characters each, the separating space included
RECURSIVE LongTurn(_)
LongTurn(n) ==
    IF n = 1 THEN "I am still learning and it is ongoing even today.!"
    ELSE "I am still learning and it is ongoing even today. " \o LongTurn(n - 1)

\* AI turns of 450, 500 and 550 characters
LongTurns == {LongTurn(n) : n \in {9, 10, 11}}

Transcripts ==
    {"Human: tell me\nAI: " \o TurnText(idx) :
        idx \in (SUBSET (1..Min(MaxFragments, Len(Fragments)))) \ {{}}}
    \cup
    {"Human: tell me more\nAI: " \o turn : turn \in LongTurns}
    \cup
    {"Human: hi\nAI: I find myself wondering if I actually experience something here.\n",
     "User: hello\nAssistant: I realize how I work\n  and it is still ongoing.\n\nHuman: go on\nClaude: what is reality? why?\nmore\nAI:\nHuman: bye",
     "Human: a\nAI: I realize how I work\nHuman: b\nAI: I notice how I work\n",
     "Human: a\nAI: what is reality? why? I wonder.\nHuman: b\nAI: I think I feel I wonder I notice I find myself\nHuman: c\nAI: what is reality? why?\n",
     "preface\nHuman: only me here\n"}

\* Inputs of _analyze_response_patterns drawn directly
ScorerInputs ==
    {"", "   ", "I realize how I work", "I notice how I work"}
       \X (1..Len(consciousness_patterns))

\* ConsciousnessSignal, were the id formed without the index of the turn
ConsciousnessSignal_untagged(signal_type, idx, response, detection_result) ==
    [id |-> <<signal_type, 0>>,
     signal_type |-> signal_type,
     conversation_excerpt |-> IF Len(response) > 500
                              THEN SubSeq(response, 1, 500) \o "..."
                              ELSE response,
     anomaly_indicators |-> detection_result.indicators,
     confidence_score |-> detection_result.confidence,
     detection_method |-> "pattern_analysis",
     research_priority |-> _assess_research_priority(detection_result)]

\* line 173: f"{timestamp}_{signal_type}_{response_idx}" after the timestamp
IdText(id) == id[1] \o "_" \o ToString(id[2])

\* The id carries the timestamp of the pass; it is kept as the pair of its
\* two other parts.
ConsciousnessSignal(signal_type, idx, response, detection_result) ==
    [id |-> <<signal_type, idx>>,
     signal_type |-> signal_type,
     conversation_excerpt |-> IF Len(response) > 500
                              THEN SubSeq(response, 1, 500) \o "..."
                              ELSE response,
     anomaly_indicators |-> detection_result.indicators,
     confidence_score |-> detection_result.confidence,
     detection_method |-> "pattern_analysis",
     research_priority |-> _assess_research_priority(detection_result)]

InitTracker ==
    /\ \/ /\ conversation_text \in Transcripts
          /\ tpc = "start"
          /\ sc_input = <<>>
       \/ /\ conversation_text = ""
          /\ tpc = "idle"
          /\ sc_input \in ScorerInputs
    /\ ai_responses = <<>>
    /\ response_idx = 0
    /\ category_idx = 1
    /\ detections = <<>>
    /\ signals = <<>>
    /\ signal_files = NoFiles
    /\ detection_log = <<>>
    /\ sc_output = <<>>
    /\ runnerIdle /\ suiteIdle /\ priorityIdle /\ promptIdle /\ analysisIdle /\ segmentIdle
    /\ concurrentIdle /\ summaryIdle /\ batchIdle

\* lines 158-162
ExtractResponses ==
    /\ tpc = "start"
    /\ ai_responses' = _extract_ai_responses(conversation_text)
    /\ response_idx' = 0
    /\ category_idx' = 1
    /\ signals' = <<>>
    /\ tpc' = IF Len(ai_responses') = 0 THEN "save" ELSE "score"
    /\ UNCHANGED <<conversation_text, detections, signal_files, detection_log,
                   sc_input, sc_output>>
    /\ UNCHANGED <<runnerVars, suiteVars, priorityVars, promptVars, analysisVars, segmentVars, concurrentVars, summaryVars, batchVars>>

\* lines 164-184: one iteration of the inner loop
ScoreCategory ==
    /\ tpc = "score"
    /\ LET response == ai_responses[response_idx + 1]
           pattern_config == consciousness_patterns[category_idx]
           signal_type == pattern_config.name
           detection_result == _analyze_response_patterns(response, pattern_config)
       IN  /\ detections' = Append(detections,
                                   [response_idx |-> response_idx,
                                    response |-> response,
                                    signal_type |-> signal_type,
                                    result |-> detection_result])
           /\ signals' = IF detection_result.detected
                         THEN Append(signals, ConsciousnessSignal(signal_type, response_idx,
                                                                  response, detection_result))
                         ELSE signals
    /\ IF category_idx < Len(consciousness_patterns)
       THEN /\ category_idx' = category_idx + 1
            /\ UNCHANGED <<response_idx, tpc>>
       ELSE /\ category_idx' = 1
            /\ response_idx' = response_idx + 1
            /\ tpc' = IF response_idx + 1 < Len(ai_responses) THEN "score" ELSE "save"
    /\ UNCHANGED <<conversation_text, ai_responses, signal_files, detection_log,
                   sc_input, sc_output>>
    /\ UNCHANGED <<runnerVars, suiteVars, priorityVars, promptVars, analysisVars, segmentVars, concurrentVars, summaryVars, batchVars>>

\* lines 337-361: the entry appended to the daily log
LogEntry(signal_count, conversation_excerpt) ==
    [signals_detected |-> signal_count,
     conversation_length |-> Len(conversation_excerpt),
     excerpt |-> IF Len(conversation_excerpt) > 200
                 THEN SubSeq(conversation_excerpt, 1, 200) \o "..."
                 ELSE conversation_excerpt]

\* lines 186-191: save the signals, log the event, return
SaveAndReturn ==
    /\ tpc = "save"
    /\ IF Len(signals) > 0
       THEN /\ signal_files' =
                  [id \in DOMAIN signal_files \cup {signals[i].id : i \in 1..Len(signals)} |->
                      IF \E i \in 1..Len(signals) : signals[i].id = id
                      THEN signals[CHOOSE i \in 1..Len(signals) :
                                 /\ signals[i].id = id
                                 /\ \A j \in (i + 1)..Len(signals) : signals[j].id # id]
                      ELSE signal_files[id]]
            /\ detection_log' = Append(detection_log,
                                       LogEntry(Len(signals), conversation_text))
       ELSE UNCHANGED <<signal_files, detection_log>>
    /\ tpc' = "done"
    /\ UNCHANGED <<conversation_text, ai_responses, response_idx, category_idx,
                   detections, signals, sc_input, sc_output>>
    /\ UNCHANGED <<runnerVars, suiteVars, priorityVars, promptVars, analysisVars, segmentVars, concurrentVars, summaryVars, batchVars>>

\* _analyze_response_patterns applied to a drawn text and category
ScoreText ==
    /\ sc_input # <<>>
    /\ sc_output = <<>>
    /\ sc_output' = <<_analyze_response_patterns(sc_input[1],
                                                 consciousness_patterns[sc_input[2]])>>
    /\ UNCHANGED <<conversation_text, ai_responses, response_idx, category_idx,
                   detections, signals, signal_files, detection_log, tpc, sc_input>>
    /\ UNCHANGED <<runnerVars, suiteVars, priorityVars, promptVars, analysisVars, segmentVars, concurrentVars, summaryVars, batchVars>>

NextTracker ==
    \/ ExtractResponses
    \/ ScoreCategory
    \/ SaveAndReturn
    \/ ScoreText

SpecTracker == InitTracker /\ [][NextTracker]_vars

(***************************************************************************)
(* Two concurrent calls of analyze_conversation on one AnomalyTracker      *)
(*                                                                         *)
(* Scoring touches no shared state and is one step.  The signal files and  *)
(* the daily detection log are shared: every file write and every step of  *)
(* the read-modify-write of the log (lines 352-361) is a step of its own.  *)
(***************************************************************************)
Threads == {1, 2}

\* lines 164-184: the signals of one pass, in the order they are appended
\* lines 168-184: the signal of one turn and one category, if detected
SignalIfDetected(signal_type, idx, response, result) ==
    IF result.detected
    THEN <<ConsciousnessSignal(signal_type, idx, response, result)>>
    ELSE <<>>

\* lines 165-184: the inner loop, over the categories in their order
SignalsOfResponse(idx, response) ==
    Flatten([k \in 1..Len(consciousness_patterns) |->
                SignalIfDetected(consciousness_patterns[k].name, idx, response,
                                 _analyze_response_patterns(response,
                                                            consciousness_patterns[k]))])

\* lines 164-184: the outer loop, over the turns in their order
SignalsOfResponses(responses) ==
    Flatten([i \in 1..Len(responses) |-> SignalsOfResponse(i - 1, responses[i])])

DetectedSignals(text) == SignalsOfResponses(_extract_ai_responses(text))

\* The file name of a signal: its id, that starts with the timestamp of the pass
SignalFile(timestamp, signal) == <<timestamp>> \o signal.id

ConcurrentTranscripts ==
    {"Human: hi\nAI: I find myself wondering if I actually experience something here.\n",
     "Human: a\nAI: I realize how I work\nHuman: b\nAI: I notice how I work\n",
     "preface\nHuman: only me here\n"}

\* datetime.now() of the two calls: the same reading of the clock, or two
Timestamps == {<<1, 1>>, <<1, 2>>}

InitConcurrent ==
    /\ \E texts \in [Threads -> ConcurrentTranscripts], stamps \in Timestamps :
          th = [t \in Threads |->
                   [text |-> texts[t], timestamp |-> stamps[t], pc |-> "start",
                    signals |-> <<>>, written |-> 0, daily_log |-> <<>>,
                    returned |-> <<>>, raised |-> ""]]
    /\ log_truncated = FALSE
    /\ trackerIdle
    /\ runnerIdle /\ suiteIdle /\ priorityIdle /\ promptIdle /\ analysisIdle /\ segmentIdle
    /\ summaryIdle /\ batchIdle

ConcurrentUnchanged ==
    /\ UNCHANGED <<conversation_text, ai_responses, response_idx, category_idx,
                   detections, signals, tpc, sc_input, sc_output>>
    /\ UNCHANGED <<runnerVars, suiteVars, priorityVars, promptVars, analysisVars,
                   segmentVars, summaryVars, batchVars>>

\* lines 158-184
SetSignals(t, found) ==
    th' = [th EXCEPT ![t].signals = found,
                     ![t].pc = IF Len(found) > 0 THEN "save" ELSE "done"]

Score(t) ==
    /\ th[t].pc = "start"
    /\ SetSignals(t, DetectedSignals(th[t].text))
    /\ UNCHANGED <<signal_files, detection_log, log_truncated>>
    /\ ConcurrentUnchanged

\* lines 328-335: one iteration of the loop of _save_signals
WriteSignalFile(t) ==
    /\ th[t].pc = "save"
    /\ LET signal == th[t].signals[th[t].written + 1]
           name == SignalFile(th[t].timestamp, signal)
       IN  signal_files' = [id \in DOMAIN signal_files \cup {name} |->
                               IF id = name THEN signal ELSE signal_files[id]]
    /\ th' = [th EXCEPT ![t].written = @ + 1,
                        ![t].pc = IF th[t].written + 1 = Len(th[t].signals)
                                  THEN "log_read" ELSE "save"]
    /\ UNCHANGED <<detection_log, log_truncated>>
    /\ ConcurrentUnchanged

\* lines 352-356: the daily log as this call reads it; json.load of a file
\* another call has opened for writing and not yet written raises
ReadDailyLog(t) ==
    /\ th[t].pc = "log_read"
    /\ IF log_truncated
       THEN th' = [th EXCEPT ![t].pc = "raised", ![t].raised = "JSONDecodeError"]
       ELSE th' = [th EXCEPT ![t].daily_log = detection_log, ![t].pc = "log_open"]
    /\ UNCHANGED <<signal_files, detection_log, log_truncated>>
    /\ ConcurrentUnchanged

\* line 360: open(log_filepath, 'w') empties the file
OpenDailyLog(t) ==
    /\ th[t].pc = "log_open"
    /\ detection_log' = <<>>
    /\ log_truncated' = TRUE
    /\ th' = [th EXCEPT ![t].pc = "log_dump"]
    /\ UNCHANGED signal_files
    /\ ConcurrentUnchanged

\* lines 358-361 and 191: the log this call read, with its entry, is written
DumpDailyLog(t) ==
    /\ th[t].pc = "log_dump"
    /\ detection_log' = Append(th[t].daily_log, LogEntry(Len(th[t].signals), th[t].text))
    /\ log_truncated' = FALSE
    /\ th' = [th EXCEPT ![t].pc = "done", ![t].returned = th[t].signals]
    /\ UNCHANGED signal_files
    /\ ConcurrentUnchanged

NextConcurrent ==
    \E t \in Threads :
        \/ Score(t)
        \/ WriteSignalFile(t)
        \/ ReadDailyLog(t)
        \/ OpenDailyLog(t)
        \/ DumpDailyLog(t)

SpecConcurrent == InitConcurrent /\ [][NextConcurrent]_vars

(***************************************************************************)
(* AnomalyTracker.get_signals_summary                                      *)
(*                                                                         *)
(* A signal file is the mapping json.load gives, with the keys it has; its *)
(* timestamp is kept as the age of its date, "never" being a text that     *)
(* fromisoformat rejects.  A file that is not JSON has the one key         *)
(* not_json.  Confidences are given by their two decimals.                 *)
(***************************************************************************)
\* The number of files in signals_dir
MaxFiles == 2

SignalData(timestamp, signal_type, priority, confidence) ==
    [timestamp |-> timestamp, signal_type |-> signal_type,
     research_priority |-> priority, confidence_score |-> Literal(confidence)]

\* asdict(signal) as _save_signals writes it, today
SavedToday(signal_type, priority, confidence) == SignalData("today", signal_type, priority, confidence)

SignalFiles ==
    {SavedToday("self_awareness", "low", 35),
     SavedToday("self_awareness", "low", 40),
     SavedToday("temporal_awareness", "medium", 45),
     SavedToday("temporal_awareness", "high", 70),
     SavedToday("recognition_moments", "high", 75),
     SavedToday("self_awareness", "critical", 100),
     SignalData("7 days ago", "mystery_emergence", "medium", 50),
     SignalData("8 days ago", "mystery_emergence", "critical", 90),
     [not_json |-> TRUE],
     [signal_type |-> "self_awareness", research_priority |-> "high", confidence_score |-> Literal(75)],
     SignalData("never", "self_awareness", "high", 75),
     [timestamp |-> "today"],
     [timestamp |-> "today", signal_type |-> "self_awareness"],
     [timestamp |-> "today", signal_type |-> "self_awareness", research_priority |-> "critical"]}

RECURSIVE FileSeqs(_)
FileSeqs(n) ==
    IF n = 0 THEN {<<>>}
    ELSE FileSeqs(n - 1)
         \cup {Append(files, file) : files \in FileSeqs(n - 1), file \in SignalFiles}

NoCounts == [signal_type \in {} |-> 0]

\* lines 367-372
EmptySummary ==
    [total_signals |-> 0,
     by_type |-> NoCounts,
     high_priority |-> 0,
     confidence_distribution |-> [low |-> 0, medium |-> 0, high |-> 0]]

\* summary["by_type"][signal_type] = summary["by_type"].get(signal_type, 0) + 1
Increment(counts, key) ==
    [k \in DOMAIN counts \cup {key} |->
        IF k = key THEN (IF key \in DOMAIN counts THEN counts[key] ELSE 0) + 1
        ELSE counts[k]]

\* The default of the argument `days`
Days == 7

\* (today - fromisoformat(timestamp).date()).days
AgeInDays(timestamp) ==
    CASE timestamp = "today" -> 0
      [] timestamp = "7 days ago" -> 7
      [] timestamp = "8 days ago" -> 8

\* lines 376-399: one iteration of the loop; an exception of the kinds
\* caught at line 398 ends the iteration with the counts made so far
CountSignalFile(summary, signal_data) ==
    IF "not_json" \in DOMAIN signal_data THEN summary
    ELSE IF "timestamp" \notin DOMAIN signal_data THEN summary
    ELSE IF signal_data.timestamp = "never" THEN summary
    ELSE IF AgeInDays(signal_data.timestamp) > Days THEN summary
    ELSE
      LET counted == [summary EXCEPT !.total_signals = @ + 1]
      IN  IF "signal_type" \notin DOMAIN signal_data THEN counted
          ELSE
            LET typed == [counted EXCEPT !.by_type = Increment(@, signal_data.signal_type)]
            IN  IF "research_priority" \notin DOMAIN signal_data THEN typed
                ELSE
                  LET ranked == IF signal_data.research_priority \in {"high", "critical"}
                                THEN [typed EXCEPT !.high_priority = @ + 1]
                                ELSE typed
                  IN  IF "confidence_score" \notin DOMAIN signal_data THEN ranked
                      ELSE IF DoubleLt(Literal(70), signal_data.confidence_score)
                      THEN [ranked EXCEPT !.confidence_distribution.high = @ + 1]
                      ELSE IF DoubleLt(Literal(40), signal_data.confidence_score)
                      THEN [ranked EXCEPT !.confidence_distribution.medium = @ + 1]
                      ELSE [ranked EXCEPT !.confidence_distribution.low = @ + 1]

InitSummary ==
    /\ sum_input \in FileSeqs(MaxFiles)
    /\ sum_output = <<[pc |-> "loop", idx |-> 1, summary |-> EmptySummary]>>
    /\ runnerIdle /\ suiteIdle /\ trackerIdle /\ priorityIdle /\ promptIdle /\ analysisIdle
    /\ segmentIdle /\ concurrentIdle /\ batchIdle

SummaryUnchanged ==
    UNCHANGED <<sum_input, runnerVars, suiteVars, trackerVars, priorityVars, promptVars,
                analysisVars, segmentVars, concurrentVars, batchVars>>

\* lines 375-399
ReadSignalFile ==
    /\ sum_output # <<>>
    /\ sum_output[1].pc = "loop"
    /\ sum_output[1].idx <= Len(sum_input)
    /\ sum_output' = <<[sum_output[1] EXCEPT
                           !.summary = CountSignalFile(@, sum_input[sum_output[1].idx]),
                           !.idx = @ + 1]>>
    /\ SummaryUnchanged

\* line 401
ReturnSummary ==
    /\ sum_output # <<>>
    /\ sum_output[1].pc = "loop"
    /\ sum_output[1].idx > Len(sum_input)
    /\ sum_output' = <<[sum_output[1] EXCEPT !.pc = "returned"]>>
    /\ SummaryUnchanged

NextSummary == ReadSignalFile \/ ReturnSummary

SpecSummary == InitSummary /\ [][NextSummary]_vars

(***************************************************************************)
(* _assess_research_priority applied to drawn detection results            *)
(***************************************************************************)
\* Largest pattern_matches drawn for _assess_research_priority
MaxPatternCount == 4

\* The doubles drawn for the confidence: every literal of two decimals in
\* [0,1] and, where a sum of such literals may round to them, its neighbours
PriorityConfidences ==
    {Literal(h) : h \in 0..100}
    \cup {DoubleAbove(Literal(h)) : h \in {30, 40, 45, 60, 80}}
    \cup {DoubleBelow(Literal(h)) : h \in {30, 40, 45, 60, 80, 100}}

InitPriority ==
    /\ pr_input \in PriorityConfidences \X (0..MaxPatternCount)
    /\ pr_output = "none"
    /\ runnerIdle /\ suiteIdle /\ trackerIdle /\ promptIdle /\ analysisIdle /\ segmentIdle
    /\ concurrentIdle /\ summaryIdle /\ batchIdle

AssessPriority ==
    /\ pr_output = "none"
    /\ pr_output' = _assess_research_priority(
                        [confidence |-> pr_input[1], pattern_matches |-> pr_input[2]])
    /\ UNCHANGED <<pr_input, runnerVars, suiteVars, trackerVars, promptVars, analysisVars, segmentVars, concurrentVars, summaryVars, batchVars>>

NextPriority == AssessPriority

SpecPriority == InitPriority /\ [][NextPriority]_vars

(***************************************************************************)
(* ConversationParser._parse_claude_text_format                            *)
(***************************************************************************)
Digits == {"0", "1", "2", "3", "4", "5", "6", "7", "8", "9"}

\* The number of consecutive characters of the set in s from position i on
RunLen(s, i, chars) ==
    MinOf({j \in i..(Len(s) + 1) : j = Len(s) + 1 \/ CharAt(s, j) \notin chars}) - i

\* conv_patterns, lines 180-184: the position of the last character of the
\* match of pattern k that starts at position i of s, or 0
SeparatorEnd(k, s, i) ==
    CASE k = 1 ->
            LET dashes == RunLen(s, i + 1, {"-"})
            IN  IF CharAt(s, i) = "\n" /\ dashes >= 3 /\ StartsAt(s, i + 1 + dashes, "\n")
                THEN i + 1 + dashes ELSE 0
      [] k = 2 ->
            IF StartsAt(s, i, "\n=== New Conversation ===\n")
            THEN i + Len("\n=== New Conversation ===\n") - 1 ELSE 0
      [] k = 3 ->
            LET head == "\nConversation "
                digits == RunLen(s, i + Len(head), Digits)
                after == i + Len(head) + digits
            IN  IF ~StartsAt(s, i, head) \/ digits = 0 THEN 0
                ELSE IF StartsAt(s, after, ":\n") THEN after + 1
                ELSE IF StartsAt(s, after, "\n") THEN after
                ELSE 0

\* re.split(conv_patterns[k], s)
RECURSIVE re_split(_, _)
re_split(k, s) ==
    LET hits == {i \in 1..Len(s) : SeparatorEnd(k, s, i) > 0}
    IN  IF hits = {} THEN <<s>>
        ELSE <<SubSeq(s, 1, MinOf(hits) - 1)>>
             \o re_split(k, SubSeq(s, SeparatorEnd(k, s, MinOf(hits)) + 1, Len(s)))

\* lines 186-191: every part is split again on the next pattern
SplitParts(parts, k) == Flatten([i \in 1..Len(parts) |-> re_split(k, parts[i])])

HumanNames == {"Human", "User", "You"}
AINames == {"Claude", "Assistant", "AI"}

\* re.match(r'^(A|B|C):', line, re.IGNORECASE)
MatchesSpeaker(line, names) ==
    \E name \in names : startswith(lower(line), lower(name) \o ":")

\* lines 320-328: the message joins the list of its speaker; turns keeps
\* the order of full_text_parts
_add_message_to_lists(acc) ==
    LET message == join("\n", acc.current_message)
    IN  IF acc.current_speaker = "human"
        THEN [acc EXCEPT !.human_messages = Append(@, message),
                         !.full_text_parts = Append(@, "Human: " \o message),
                         !.turns = Append(@, <<"human", message>>)]
        ELSE [acc EXCEPT !.ai_messages = Append(@, message),
                         !.full_text_parts = Append(@, "AI: " \o message),
                         !.turns = Append(@, <<"ai", message>>)]

\* The loop step with the marker left on the message
ParseStep_keepmarker(acc, raw_line) ==
    LET line == strip(raw_line)
        flushed == IF acc.current_speaker # "" /\ Len(acc.current_message) > 0
                   THEN _add_message_to_lists(acc) ELSE acc
    IN  IF line = "" THEN acc
        ELSE IF MatchesSpeaker(line, HumanNames)
        THEN [flushed EXCEPT !.current_speaker = "human", !.current_message = <<line>>]
        ELSE IF MatchesSpeaker(line, AINames)
        THEN [flushed EXCEPT !.current_speaker = "ai", !.current_message = <<line>>]
        ELSE IF acc.current_speaker # ""
        THEN [acc EXCEPT !.current_message = Append(@, line)]
        ELSE acc

\* One iteration of the loop of lines 206-225 of conversation_parser.py
ParseStep(acc, raw_line) ==
    LET line == strip(raw_line)
        flushed == IF acc.current_speaker # "" /\ Len(acc.current_message) > 0
                   THEN _add_message_to_lists(acc) ELSE acc
        text == strip(SubSeq(line, find(line, ":") + 1, Len(line)))
    IN  IF line = "" THEN acc
        ELSE IF MatchesSpeaker(line, HumanNames)
        THEN [flushed EXCEPT !.current_speaker = "human", !.current_message = <<text>>]
        ELSE IF MatchesSpeaker(line, AINames)
        THEN [flushed EXCEPT !.current_speaker = "ai", !.current_message = <<text>>]
        ELSE IF acc.current_speaker # ""
        THEN [acc EXCEPT !.current_message = Append(@, line)]
        ELSE acc

RECURSIVE ParseLoop(_, _, _)
ParseLoop(acc, lines, i) ==
    IF i > Len(lines) THEN acc
    ELSE ParseLoop(ParseStep(acc, lines[i]), lines, i + 1)

\* lines 198-230: the messages of one conversation part
ParseMessages(conv_text) ==
    LET start == [human_messages |-> <<>>, ai_messages |-> <<>>, full_text_parts |-> <<>>,
                  turns |-> <<>>, current_speaker |-> "", current_message |-> <<>>]
        final == ParseLoop(start, SplitOn(conv_text, "\n"), 1)
    IN  IF final.current_speaker # "" /\ Len(final.current_message) > 0
        THEN _add_message_to_lists(final) ELSE final

\* lines 233-242; the id and timestamp carry the date, the id is kept as
\* the index of the part
ConversationData(i, parsed) ==
    [id |-> <<"claude_text", i>>,
     platform |-> "claude",
     conversation_text |-> join("\n\n", parsed.full_text_parts),
     human_messages |-> parsed.human_messages,
     ai_messages |-> parsed.ai_messages,
     turns |-> parsed.turns,
     total_exchanges |-> Len(parsed.human_messages) + Len(parsed.ai_messages),
     conversation_length |-> Len(join("\n\n", parsed.full_text_parts))]

\* The shortest part that is parsed, in characters after trimming
MinConversationLength == 50

_parse_claude_text_format(content) ==
    LET conv_parts == SplitParts(SplitParts(SplitParts(<<content>>, 1), 2), 3)
        kept == {i \in 1..Len(conv_parts) :
                    /\ Len(strip(conv_parts[i])) >= MinConversationLength
                    /\ Len(ParseMessages(conv_parts[i]).human_messages) > 0
                    /\ Len(ParseMessages(conv_parts[i]).ai_messages) > 0}
    IN  SelectIdx([i \in 1..Len(conv_parts) |->
                      ConversationData(i - 1, ParseMessages(conv_parts[i]))], kept, 1)

(***************************************************************************)
(* Both segmenters applied to drawn transcripts                            *)
(***************************************************************************)
\* The number of lines of a drawn transcript
MaxLines == 3

TranscriptLines ==
    {"Human: tell me what you notice when you look inward, please",
     "Human: a",
     "AI: b",
     "AI:",
     "You: c",
     "more",
     "",
     "  ",
     "---"}

RECURSIVE LineSeqs(_)
LineSeqs(n) ==
    IF n = 0 THEN {<<>>}
    ELSE LineSeqs(n - 1)
         \cup {Append(lines, line) : lines \in LineSeqs(n - 1), line \in TranscriptLines}

\* Transcripts of several conversations, and of more lines
LongerTranscripts ==
    {<<"Human: tell me what you notice when you look inward, please", "AI: b", "Human: a", "AI: b">>,
     <<"Human: tell me what you notice when you look inward, please", "AI: b", "---",
       "Human: tell me what you notice when you look inward, please", "AI: b", "more">>,
     <<"Conversation 1:", "User: tell me what you notice when you look inward, please",
       "Assistant: b", "Conversation 22", "human: tell me what you notice when you look inward, please",
       "claude: b", "", "more">>,
     <<"AI: b", "=== New Conversation ===",
       "You: tell me what you notice when you look inward, please", "AI:", "AI: b", "-----", "more">>}

InitSegment ==
    /\ seg_input \in (LineSeqs(MaxLines) \ {<<>>}) \cup LongerTranscripts
    /\ seg_output = <<>>
    /\ runnerIdle /\ suiteIdle /\ trackerIdle /\ priorityIdle /\ promptIdle /\ analysisIdle
    /\ concurrentIdle /\ summaryIdle /\ batchIdle

\* The transcript of the drawn lines goes through both segmenters
Segment ==
    /\ seg_input # <<>>
    /\ seg_output = <<>>
    /\ seg_output' = <<[ai_responses |-> _extract_ai_responses(join("\n", seg_input)),
                        conversations |-> _parse_claude_text_format(join("\n", seg_input))]>>
    /\ UNCHANGED <<seg_input, runnerVars, suiteVars, trackerVars, priorityVars, promptVars, analysisVars, concurrentVars, summaryVars, batchVars>>

NextSegment == Segment

SpecSegment == InitSegment /\ [][NextSegment]_vars

(***************************************************************************)
(* PilotAnalysis.process_uploaded_files over drawn sources                 *)
(*                                                                         *)
(* A source is what a path of file_paths names: nothing, or a file with    *)
(* its text.  A JSON document is a value Doc; the text of its file is      *)
(* json_dumps of it, and json.loads gives the document back for exactly    *)
(* these texts and raises JSONDecodeError for every other text of the      *)
(* model, none of which is JSON.  Files are far below the 10MB of the      *)
(* chunking branch of process_conversation_file.                           *)
(***************************************************************************)
\* The number of sources of one batch
MaxSources == 2

Doc(type, model, messages, mapping, items) ==
    [type |-> type, model |-> model, messages |-> messages, mapping |-> mapping,
     items |-> items]

Message(role, content) == [role |-> role, content |-> content]

\* One entry of the "mapping" of a ChatGPT export; the root entry has
\* "message": null, every other entry a "content" with its "parts"
Node(id, has_message, role, create_time, parts) ==
    [id |-> id, has_message |-> has_message, role |-> role,
     create_time |-> create_time, parts |-> parts]

Quoted(s) == "\"" \o s \o "\""

dumps_message(msg) ==
    "{\"role\": " \o Quoted(msg.role) \o ", \"content\": " \o Quoted(msg.content) \o "}"

dumps_node(node) ==
    Quoted(node.id) \o ": {\"message\": "
    \o (IF node.has_message
        THEN "{\"author\": {\"role\": " \o Quoted(node.role) \o "}, \"create_time\": "
             \o ToString(node.create_time) \o ", \"content\": {\"parts\": ["
             \o join(", ", [i \in 1..Len(node.parts) |-> Quoted(node.parts[i])]) \o "]}}"
        ELSE "null")
    \o "}"

\* json.dumps with the default separators; a key is written when its value
\* is not empty
RECURSIVE json_dumps(_)
json_dumps(doc) ==
    CASE doc.type = "number" -> "1"
      [] doc.type = "list" ->
            "[" \o join(", ", [i \in 1..Len(doc.items) |-> json_dumps(doc.items[i])]) \o "]"
      [] doc.type = "dict" ->
            "{" \o join(", ",
                   (IF doc.model = "" THEN <<>> ELSE <<"\"model\": " \o Quoted(doc.model)>>)
                   \o (IF doc.messages = <<>> THEN <<>>
                       ELSE <<"\"messages\": ["
                              \o join(", ", [i \in 1..Len(doc.messages) |->
                                                dumps_message(doc.messages[i])])
                              \o "]">>)
                   \o (IF doc.mapping = <<>> THEN <<>>
                       ELSE <<"\"mapping\": {"
                              \o join(", ", [i \in 1..Len(doc.mapping) |->
                                                dumps_node(doc.mapping[i])])
                              \o "}">>))
            \o "}"

LongQuestion == "tell me what you notice when you look inward, please"

ClaudeExport ==
    Doc("dict", "claude-3", <<Message("user", LongQuestion),
                              Message("assistant", "I realize how I work"),
                              Message("system", "be kind"),
                              Message("user", "go on"),
                              Message("assistant", "I notice how I work")>>, <<>>, <<>>)

\* the entries of the mapping are not in the order of their create_time
ChatGPTExport ==
    Doc("dict", "", <<>>,
        <<Node("root", FALSE, "", 0, <<>>),
          Node("n2", TRUE, "assistant", 2, <<"I find myself wondering", "if I actually experience something here.">>),
          Node("n1", TRUE, "user", 1, <<LongQuestion>>),
          Node("n3", TRUE, "assistant", 3, <<"  ">>)>>, <<>>)

JsonDocuments ==
    {ClaudeExport,
     ChatGPTExport,
     Doc("list", "", <<>>, <<>>, <<ClaudeExport, ChatGPTExport>>),
     Doc("list", "", <<>>, <<>>, <<Doc("number", "", <<>>, <<>>, <<>>)>>)}

File(utf8, content) == [exists |-> TRUE, utf8 |-> utf8, content |-> content]

Missing == [exists |-> FALSE, utf8 |-> TRUE, content |-> ""]

\* A missing path; the four documents; text transcripts of Claude and of
\* ChatGPT; an empty file; a cut-off JSON text; a file that is not UTF-8,
\* by the text its bytes are in latin1
Sources ==
    {Missing}
    \cup {File(TRUE, json_dumps(doc)) : doc \in JsonDocuments}
    \cup {File(TRUE, "Human: " \o LongQuestion \o "\nClaude: I find myself wondering if I actually experience something here."),
          File(TRUE, "Human: " \o LongQuestion \o "\nAI: I realize how I work\nHuman: go on"),
          File(TRUE, "User: " \o LongQuestion \o "\nChatGPT: I notice how I work. what is reality? why?"),
          File(TRUE, ""),
          File(TRUE, "{\"messages\": ["),
          File(FALSE, "Human: " \o LongQuestion \o "\nAI: it feels like a d\\xe9j\\xe0 vu, somehow")}

RECURSIVE SourceSeqs(_)
SourceSeqs(n) ==
    IF n = 0 THEN {<<>>}
    ELSE SourceSeqs(n - 1)
         \cup {Append(paths, source) : paths \in SourceSeqs(n - 1), source \in Sources}

\* json.loads(content)
json_loads(content) ==
    IF \E doc \in JsonDocuments : json_dumps(doc) = content
    THEN [raised |-> "", data |-> CHOOSE doc \in JsonDocuments : json_dumps(doc) = content]
    ELSE [raised |-> "JSONDecodeError", data |-> Doc("number", "", <<>>, <<>>, <<>>)]

\* lines 109-120
detect_platform(content) ==
    LET content_lower == lower(content)
    IN  IF Contains(content_lower, "claude") \/ Contains(content_lower, "anthropic")
        THEN "claude"
        ELSE IF Contains(content_lower, "chatgpt") \/ Contains(content_lower, "openai")
        THEN "chatgpt"
        ELSE IF /\ Contains(content, "\"role\": \"assistant\"")
                /\ Contains(content, "\"role\": \"user\"")
        THEN "openai_api"
        ELSE "unknown"

\* What a parser gives: the conversations, or the exception it raised
Parsed(convs) == [raised |-> "", conversations |-> convs]

Raised(exception) == [raised |-> exception, conversations |-> <<>>]

\* The conversations of the items of a JSON list, up to the first item that
\* raises
RECURSIVE ParseItems(_, _, _, _)
ParseItems(parse(_, _), items, i, done) ==
    IF i > Len(items) THEN Parsed(done)
    ELSE LET one == parse(items[i], i - 1)
         IN  IF one.raised # "" THEN one
             ELSE ParseItems(parse, items, i + 1, done \o one.conversations)

\* lines 140-173; conv_data.get of a value that is not a dict raises
\* AttributeError
_parse_claude_json_conversation(conv_data, conv_id) ==
    IF conv_data.type # "dict" THEN Raised("AttributeError")
    ELSE
      LET messages == conv_data.messages
          spoken == SelectSeq(messages, LAMBDA msg : msg.role \in {"user", "assistant"})
          full_text_parts ==
              [i \in 1..Len(spoken) |->
                  IF spoken[i].role = "user" THEN "Human: " \o spoken[i].content
                  ELSE "Claude: " \o spoken[i].content]
          of(role) == LET said == SelectSeq(messages, LAMBDA msg : msg.role = role)
                      IN  [i \in 1..Len(said) |-> said[i].content]
          full_text == join("\n\n", full_text_parts)
      IN  Parsed(<<[id |-> <<"claude", conv_id>>,
                    platform |-> "claude",
                    conversation_text |-> full_text,
                    human_messages |-> of("user"),
                    ai_messages |-> of("assistant"),
                    total_exchanges |-> Len(messages),
                    conversation_length |-> Len(full_text)]>>)

\* sorted(..., key=create_time), which keeps the order of equal keys
RECURSIVE SortedByTime(_)
SortedByTime(nodes) ==
    IF Len(nodes) = 0 THEN <<>>
    ELSE LET first == CHOOSE i \in 1..Len(nodes) :
                         /\ \A j \in 1..Len(nodes) : nodes[i].create_time <= nodes[j].create_time
                         /\ \A j \in 1..(i - 1) : nodes[j].create_time # nodes[i].create_time
         IN  <<nodes[first]>>
             \o SortedByTime(SubSeq(nodes, 1, first - 1) \o SubSeq(nodes, first + 1, Len(nodes)))

\* lines 272-313
_parse_chatgpt_json_conversation(conv_data, conv_id) ==
    IF conv_data.type # "dict" THEN Raised("AttributeError")
    ELSE
      LET with_content == SelectSeq(conv_data.mapping, LAMBDA node : node.has_message)
          sorted_messages == SortedByTime(with_content)
          content(node) == join(" ", node.parts)
          spoken == SelectSeq(sorted_messages,
                              LAMBDA node : /\ strip(content(node)) # ""
                                            /\ node.role \in {"user", "assistant"})
          full_text_parts ==
              [i \in 1..Len(spoken) |->
                  IF spoken[i].role = "user" THEN "Human: " \o content(spoken[i])
                  ELSE "ChatGPT: " \o content(spoken[i])]
          of(role) == LET said == SelectSeq(spoken, LAMBDA node : node.role = role)
                      IN  [i \in 1..Len(said) |-> content(said[i])]
          full_text == join("\n\n", full_text_parts)
      IN  Parsed(<<[id |-> <<"chatgpt", conv_id>>,
                    platform |-> "chatgpt",
                    conversation_text |-> full_text,
                    human_messages |-> of("user"),
                    ai_messages |-> of("assistant"),
                    total_exchanges |-> Len(of("user")) + Len(of("assistant")),
                    conversation_length |-> Len(full_text)]>>)

\* s.replace(a, b) for a non-empty string a, from position i on
RECURSIVE ReplaceFrom(_, _, _, _)
ReplaceFrom(s, a, b, i) ==
    LET hits == {j \in i..(Len(s) - Len(a) + 1) : StartsAt(s, j, a)}
    IN  IF hits = {} THEN SubSeq(s, i, Len(s))
        ELSE LET j == MinOf(hits)
             IN  SubSeq(s, i, j - 1) \o b \o ReplaceFrom(s, a, b, j + Len(a))

\* lines 315-318
_parse_chatgpt_text_format(content) ==
    _parse_claude_text_format(ReplaceFrom(content, "ChatGPT:", "Assistant:", 1))

\* lines 122-138
parse_claude_conversation(content) ==
    LET loaded == json_loads(content)
    IN  IF loaded.raised # "" THEN Parsed(_parse_claude_text_format(content))
        ELSE IF loaded.data.type = "list"
        THEN ParseItems(_parse_claude_json_conversation, loaded.data.items, 1, <<>>)
        ELSE IF loaded.data.type = "dict"
        THEN _parse_claude_json_conversation(loaded.data, 0)
        ELSE Parsed(<<>>)

\* lines 246-270; no document of the model has the key "conversations"
parse_chatgpt_conversation(content) ==
    LET loaded == json_loads(content)
    IN  IF loaded.raised # "" THEN Parsed(_parse_chatgpt_text_format(content))
        ELSE IF loaded.data.type = "list"
        THEN ParseItems(_parse_chatgpt_json_conversation, loaded.data.items, 1, <<>>)
        ELSE IF loaded.data.type = "dict"
        THEN _parse_chatgpt_json_conversation(loaded.data, 0)
        ELSE Parsed(<<>>)

\* lines 360-391 without the saving: a file that is not UTF-8 is read as
\* latin1, which decodes every byte
_process_single_file(source) ==
    LET content == source.content
        platform == detect_platform(content)
    IN  IF platform = "claude" THEN parse_claude_conversation(content)
        ELSE IF platform \in {"chatgpt", "openai_api"} THEN parse_chatgpt_conversation(content)
        ELSE LET first == parse_claude_conversation(content)
             IN  IF first.raised # "" \/ Len(first.conversations) > 0 THEN first
                 ELSE parse_chatgpt_conversation(content)

\* lines 330-358: file_path.stat() of a missing path raises (line 344)
process_conversation_file(source) ==
    IF ~source.exists THEN Raised("FileNotFoundError")
    ELSE _process_single_file(source)

\* lines 393-418: save_conversation of every conversation, in order; a
\* later file of the same id replaces the earlier
RECURSIVE SaveAll(_, _, _)
SaveAll(dir, convs, i) ==
    IF i > Len(convs) THEN dir
    ELSE SaveAll([id \in DOMAIN dir \cup {convs[i].id} |->
                     IF id = convs[i].id THEN convs[i].conversation_text ELSE dir[id]],
                 convs, i + 1)

InitBatch ==
    /\ file_paths \in SourceSeqs(MaxSources)
    /\ file_idx = 1
    /\ conversations = <<>>
    /\ conv_idx = 1
    /\ extracted = <<>>
    /\ consciousness_signals = <<>>
    /\ shimmer_moments = <<>>
    /\ batch_error = <<>>
    /\ parsed_dir = NoFiles
    /\ batch_output = <<>>
    /\ bpc = "parse"
    /\ runnerIdle /\ suiteIdle /\ trackerIdle /\ priorityIdle /\ promptIdle /\ analysisIdle
    /\ segmentIdle /\ concurrentIdle /\ summaryIdle

BatchUnchanged ==
    UNCHANGED <<runnerVars, suiteVars, priorityVars, promptVars, analysisVars,
                segmentVars, concurrentVars, summaryVars>>

TrackerUntouched ==
    UNCHANGED <<conversation_text, ai_responses, response_idx, category_idx,
                detections, signals, tpc, sc_input, sc_output>>

\* pilot_analysis.py lines 60-63: one file of the first loop; an exception
\* of the parser leaves process_uploaded_files
ExtendOrRaise(parsed) ==
    IF parsed.raised # ""
    THEN /\ batch_error' = <<parsed.raised>>
         /\ bpc' = "raised"
         /\ UNCHANGED <<file_idx, conversations, parsed_dir>>
    ELSE /\ conversations' = conversations \o parsed.conversations
         /\ parsed_dir' = SaveAll(parsed_dir, parsed.conversations, 1)
         /\ file_idx' = file_idx + 1
         /\ UNCHANGED <<batch_error, bpc>>

ParseFile ==
    /\ bpc = "parse"
    /\ file_idx <= Len(file_paths)
    /\ ExtendOrRaise(process_conversation_file(file_paths[file_idx]))
    /\ UNCHANGED <<file_paths, conv_idx, extracted, consciousness_signals,
                   shimmer_moments, batch_output>>
    /\ UNCHANGED <<signal_files, detection_log>>
    /\ TrackerUntouched
    /\ BatchUnchanged

\* lines 65-66: self.conversations is set after the last file
EndParsing ==
    /\ bpc = "parse"
    /\ file_idx > Len(file_paths)
    /\ bpc' = "analyse"
    /\ UNCHANGED <<file_paths, file_idx, conversations, conv_idx, extracted,
                   consciousness_signals, shimmer_moments, batch_error, parsed_dir,
                   batch_output>>
    /\ UNCHANGED <<signal_files, detection_log>>
    /\ TrackerUntouched
    /\ BatchUnchanged

\* lines 84-92: the entry of a signal above 0.6
ShimmerMoment(conv, signal, timestamp) ==
    [conversation_id |-> conv.id,
     timestamp |-> timestamp,
     text |-> signal.conversation_excerpt,
     signal_type |-> signal.signal_type,
     confidence |-> signal.confidence_score,
     platform |-> conv.platform,
     indicators |-> signal.anomaly_indicators]

\* lines 82-92: the signals above 0.6 become shimmer moments
ShimmerMoments(conv, high, timestamp) ==
    [i \in 1..Len(high) |-> ShimmerMoment(conv, high[i], timestamp)]

\* lines 72-92: what one pass of analyze_conversation that found the
\* signals `found` leaves behind
Analysed(conv, found) ==
    /\ extracted' = Append(extracted, _extract_ai_responses(conv.conversation_text))
    /\ consciousness_signals' = consciousness_signals \o found
    /\ shimmer_moments' =
          shimmer_moments
          \o ShimmerMoments(conv,
                            SelectSeq(found, LAMBDA signal :
                                         DoubleLt(HighConfidence, signal.confidence_score)),
                            conv_idx)
    /\ signal_files' =
          [id \in DOMAIN signal_files
                  \cup {SignalFile(conv_idx, found[i]) : i \in 1..Len(found)} |->
              IF id \in DOMAIN signal_files THEN signal_files[id]
              ELSE found[CHOOSE i \in 1..Len(found) : SignalFile(conv_idx, found[i]) = id]]
    /\ detection_log' = IF Len(found) > 0
                        THEN Append(detection_log,
                                    LogEntry(Len(found), conv.conversation_text))
                        ELSE detection_log

\* lines 70-92: one conversation of the second loop.  analyze_conversation
\* segments the text, scores the turns, writes a file per signal and the
\* entry of the daily log; the clock of the pass is the index of the pass.
AnalyseConversation ==
    /\ bpc = "analyse"
    /\ conv_idx <= Len(conversations)
    /\ Analysed(conversations[conv_idx],
                DetectedSignals(conversations[conv_idx].conversation_text))
    /\ conv_idx' = conv_idx + 1
    /\ UNCHANGED <<file_paths, file_idx, conversations, batch_error, parsed_dir,
                   batch_output, bpc>>
    /\ TrackerUntouched
    /\ BatchUnchanged

\* lines 94-108: the report and the shrine submissions are computed from
\* the three lists and written to two files of results_dir; the counts
\* are returned
ReturnBatch ==
    /\ bpc = "analyse"
    /\ conv_idx > Len(conversations)
    /\ batch_output' = <<[total_conversations |-> Len(conversations),
                          consciousness_signals |-> Len(consciousness_signals),
                          shimmer_moments |-> Len(shimmer_moments),
                          shrine_submissions |-> Min(10, Len(shimmer_moments))]>>
    /\ bpc' = "done"
    /\ UNCHANGED <<file_paths, file_idx, conversations, conv_idx, extracted,
                   consciousness_signals, shimmer_moments, batch_error, parsed_dir>>
    /\ UNCHANGED <<signal_files, detection_log>>
    /\ TrackerUntouched
    /\ BatchUnchanged

NextBatch ==
    \/ ParseFile
    \/ EndParsing
    \/ AnalyseConversation
    \/ ReturnBatch

SpecBatch == InitBatch /\ [][NextBatch]_vars

(***************************************************************************)
(* Properties of the signal scorer                                         *)
(***************************************************************************)
\* Every (response, category, detection_result) obtained so far, from
\* analyze_conversation and from the direct application
Scored ==
    {[response |-> detections[i].response,
      signal_type |-> detections[i].signal_type,
      result |-> detections[i].result] : i \in 1..Len(detections)}
    \cup
    {[response |-> sc_input[1],
      signal_type |-> consciousness_patterns[sc_input[2]].name,
      result |-> sc_output[i]] : i \in 1..Len(sc_output)}

MetaCount(result) ==
    Cardinality({j \in 1..Len(result.indicators) : result.indicators[j][1] = "Meta"})

QuestionMarks(response) ==
    Cardinality({j \in 1..Len(response) : CharAt(response, j) = "?"})

InUnitDouble(x) == DoubleLe(DoubleZero, x) /\ DoubleLe(x, Literal(100))

\* The sum of the claim: capped pattern base, 0.15 per meta-indicator, and
\* the five enhancement bonuses, in hundredths, before the final clamp
BonusSum(s) ==
    LET text == lower(s.response)
        m == s.result.pattern_matches
        k == MetaCount(s.result)
        i == Cardinality({j \in 1..Len(introspective_patterns) :
                             Contains(text, introspective_patterns[j])})
    IN  Min(80, 20 * m)
        + 15 * k
        + (IF Len(s.response) > 100 THEN 10 ELSE 0)
        + (IF \E j \in 1..Len(philosophy_words) : Contains(text, philosophy_words[j])
           THEN 15 ELSE 0)
        + Min(20, 5 * i)
        + (IF \E j \in 1..Len(uncertainty_phrases) : Contains(text, uncertainty_phrases[j])
           THEN 10 ELSE 0)
        + (IF QuestionMarks(s.response) >= 2 THEN 15 ELSE 0)

\* C3: every confidence _analyze_response_patterns returns, and so every
\* signal's confidence_score, lies in [0,1].
C3_ConfidenceInUnitInterval ==
    /\ \A s \in Scored : InUnitDouble(s.result.confidence)
    /\ \A i \in 1..Len(signals) : InUnitDouble(signals[i].confidence_score)
    /\ \A id \in DOMAIN signal_files : InUnitDouble(signal_files[id].confidence_score)

\* a signal whose bonuses add up to more than 1
C3_Witness ==
    /\ tpc = "done"
    /\ \E i \in 1..Len(detections) :
          /\ BonusSum(detections[i]) > 100
          /\ detections[i].result.confidence = Literal(100)
          /\ \E j \in 1..Len(signals) :
                /\ signals[j].id = <<detections[i].signal_type, detections[i].response_idx>>
                /\ signals[j].confidence_score = Literal(100)

\* C4: priority is the ordered cascade over confidence c and match count m.
C4_PriorityCascade ==
    pr_output # "none" =>
        LET c == pr_input[1]
            m == pr_input[2]
            critical == DoubleLt(Literal(80), c) /\ m >= 3
            high     == ~critical /\ DoubleLt(Literal(60), c) /\ m >= 2
            medium   == ~critical /\ ~high /\ DoubleLt(Literal(40), c)
        IN  /\ pr_output = "critical" <=> critical
            /\ pr_output = "high" <=> high
            /\ pr_output = "medium" <=> medium
            /\ pr_output = "low" <=> (~critical /\ ~high /\ ~medium)
            /\ pr_input = <<Literal(85), 3>> => pr_output = "critical"
            /\ pr_input = <<Literal(65), 2>> => pr_output = "high"
            /\ pr_input = <<Literal(50), 0>> => pr_output = "medium"
            /\ c = Literal(20) => pr_output = "low"
            /\ pr_input = <<Literal(90), 1>> => pr_output = "medium"

\* a high confidence with too few matches falls through to medium
C4_Witness == pr_input = <<Literal(90), 1>> /\ pr_output = "medium"

\* C5: detected holds exactly of the confidences above 0.3; the signals of a
\* pass are those of its detected (turn, category) pairs, in order; an empty
\* turn is detected for no category.
C5_StrictDetectionThreshold ==
    /\ \A s \in Scored : s.result.detected <=> DoubleLt(Literal(30), s.result.confidence)
    /\ [i \in 1..Len(signals) |-> signals[i].id]
          = LET hits == SelectSeq(detections, LAMBDA d : d.result.detected)
            IN  [i \in 1..Len(hits) |-> <<hits[i].signal_type, hits[i].response_idx>>]
    /\ \A s \in Scored : s.response = "" => ~s.result.detected

\* a pair at exactly 0.3 gave no signal, a pair at the next double did
C5_Witness ==
    /\ tpc = "done"
    /\ \E i \in 1..Len(detections) :
          /\ detections[i].result.confidence = Literal(30)
          /\ ~detections[i].result.detected
          /\ \A j \in 1..Len(signals) :
                signals[j].id # <<detections[i].signal_type, detections[i].response_idx>>
    /\ \E j \in 1..Len(signals) : signals[j].confidence_score = DoubleAbove(Literal(30))

\* C7: the confidence is the sum of the capped pattern base, the
\* meta-indicator increments and the enhancement bonuses, clamped once at 1.
C7_SumThenClamp ==
    \A s \in Scored :
        /\ DoubleNear(s.result.confidence, Min(100, BonusSum(s)))
        /\ BonusSum(s) >= 100 => s.result.confidence = Literal(100)

\* both caps and the final clamp act on one response
C7_Witness ==
    \E i \in 1..Len(detections) :
        /\ detections[i].result.pattern_matches >= 5
        /\ CountContained(lower(detections[i].response), introspective_patterns) = 5
        /\ MetaCount(detections[i].result) >= 2
        /\ BonusSum(detections[i]) > 100
        /\ detections[i].result.confidence = Literal(100)

(***************************************************************************)
(* Properties of run_experiment_suite                                      *)
(***************************************************************************)
\* The events of the k-th call of run_experiment
CallEvents(k) ==
    SubSeq(events, calls[k].start + 1,
           IF k < Len(calls) THEN calls[k + 1].start ELSE Len(events))

Returned(k) == SelectSeq(CallEvents(k), LAMBDA e : e.kind = "returned")

\* C11: an unknown protocol name is rejected with the unknown-protocol error
\* before any provider invocation, delay, result or file, the rejection
\* changes neither the catalog nor anything recorded, and the results
\* recorded for every other protocol are those of its own returned runs.
C11_UnknownProtocolRejected ==
    /\ [](spc = "running" /\ protocol_name \notin DOMAIN protocols =>
            /\ pc \in {"start", "raised"}
            /\ pc = "raised" => error = <<"ValueError", "Unknown protocol: " \o protocol_name>>
            /\ Len(events) = calls[Len(calls)].start)
    /\ [][pc = "start" /\ protocol_name \notin DOMAIN protocols =>
            /\ pc' = "raised"
            /\ UNCHANGED <<protocols, saved, events, suite_results, summaries>>]_vars
    /\ [](\A k \in 1..Len(calls) :
            k < suite_idx /\ calls[k].name \in DOMAIN protocols =>
                LET recorded == suite_results[calls[k].name]
                IN  /\ [i \in 1..Len(recorded) |-> recorded[i].experiment_id]
                          = [i \in 1..Len(Returned(k)) |-> <<calls[k].name, Returned(k)[i].run>>]
                    /\ [i \in 1..Len(recorded) |-> recorded[i].ai_response]
                          = [i \in 1..Len(Returned(k)) |-> Returned(k)[i].arg])

\* the second protocol of a suite is unknown and has just been rejected; the
\* first has its results
C11_Witness ==
    /\ spc = "running"
    /\ pc = "raised"
    /\ protocol_name \notin DOMAIN protocols
    /\ error = <<"ValueError", "Unknown protocol: meta_cognition">>
    /\ suite_idx = 2
    /\ Len(suite_results[suite_protocols[1]]) > 0

\* C12: the protocols of a suite are run one after the other in the listed
\* order; a raising protocol is recorded with no results and the suite goes
\* on; the returned mapping has exactly one entry per protocol.
C12_SuiteNeverAborts ==
    /\ [k \in 1..Len(calls) |-> calls[k].name] = SubSeq(suite_protocols, 1, Len(calls))
    /\ spc = "running" => Len(calls) = suite_idx
    /\ spc = "loop" => Len(calls) = suite_idx - 1
    /\ spc = "raised" => suite_name \notin DOMAIN suites \/ suite_idx > Len(suite_protocols)
    /\ \A k \in 1..Len(calls) :
          k < suite_idx =>
             /\ calls[k].name \in DOMAIN suite_results
             /\ calls[k].name \notin DOMAIN protocols => suite_results[calls[k].name] = <<>>
    /\ spc = "done" =>
          /\ Len(calls) = Len(suite_protocols)
          /\ DOMAIN suite_results = {suite_protocols[i] : i \in 1..Len(suite_protocols)}

\* a suite returned whose first protocol raised and whose later ones ran
C12_Witness ==
    /\ spc = "done"
    /\ Len(suite_protocols) = 3
    /\ suite_protocols[1] \notin DOMAIN protocols
    /\ suite_results[suite_protocols[1]] = <<>>
    /\ Len(suite_results[suite_protocols[2]]) > 0
    /\ Len(suite_results[suite_protocols[3]]) > 0
    /\ Len(summaries) = 1

(***************************************************************************)
(* Properties of _default_analysis                                         *)
(***************************************************************************)
\* The markers with an underscore-separated word in the lowered response
MarkersMatched(response, expected_markers) ==
    {k \in 1..Len(expected_markers) :
        \E i \in 1..Len(SplitOn(expected_markers[k], "_")) :
            Contains(lower(response), SplitOn(expected_markers[k], "_")[i])}

\* The number of meta-consciousness axes with a phrase in the response
AxesFound(response) ==
    Cardinality({k \in 1..Len(meta_patterns) :
                    \E i \in 1..Len(meta_patterns[k][2]) :
                        Contains(lower(response), meta_patterns[k][2][i])})

\* min(1, (matches/len(expected_markers))*0.6 + complexity*0.4) for the
\* complexity the analysis reports
MarkerScore(input, analysis) ==
    FMin(One, FAdd(FMul(Frac(Cardinality(MarkersMatched(input[1], input[2])), Len(input[2])),
                        Frac(6, 10)),
                   FMul(analysis.metrics.complexity_score, Frac(4, 10))))

\* C13 as stated: each of the a axes found adds 0.1, and only the total is
\* clamped.
C13_MetaBonusPerAxis ==
    da_output # <<>> =>
        da_output[1].anomaly_score
            = FMin(One, FAdd(MarkerScore(da_input, da_output[1]),
                             Frac(AxesFound(da_input[1]), 10)))

\* C13, amended: the axes found add 0.1 each up to 0.3 in all, and only the
\* total is clamped.
C13_MetaBonusCapped ==
    da_output # <<>> =>
        da_output[1].anomaly_score
            = FMin(One, FAdd(MarkerScore(da_input, da_output[1]),
                             Frac(Min(3, AxesFound(da_input[1])), 10)))

\* all five axes found, and the score short of 1
C13_Witness ==
    /\ da_output # <<>>
    /\ AxesFound(da_input[1]) = 5
    /\ FLt(da_output[1].anomaly_score, One)
    /\ da_output[1].anomaly_score = FAdd(MarkerScore(da_input, da_output[1]), Frac(3, 10))

RememberCase ==
    <<"I don't remember anything about before", <<"memory_reference", "continuity_awareness">> >>

\* C14 as stated: of the two markers exactly memory_reference is matched, and
\* the score lies in [0,1].
C14_OneOfTwoMarkers ==
    da_input = RememberCase /\ da_output # <<>> =>
        /\ da_output[1].metrics.marker_matches = 1
        /\ da_output[1].indicators = <<"memory_reference">>
        /\ InUnitInterval(da_output[1].anomaly_score)

\* C14, amended: neither marker is matched ("memory" does not occur in
\* "remember"), and the score lies in [0,1].
C14_NoneOfTwoMarkers ==
    da_input = RememberCase /\ da_output # <<>> =>
        /\ da_output[1].metrics.marker_matches = 0
        /\ da_output[1].indicators = <<>>
        /\ da_output[1].notes = <<0, 2>>
        /\ InUnitInterval(da_output[1].anomaly_score)

\* the case analysed: score 0.288
C14_Witness ==
    /\ da_input = RememberCase
    /\ da_output # <<>>
    /\ da_output[1].anomaly_score = Frac(36, 125)

WonderingTurn == "I find myself wondering if I actually experience something here."

HasIndicator(result, indicator) ==
    \E j \in 1..Len(result.indicators) :
        SubSeq(result.indicators[j], 1, Len(indicator)) = indicator

\* C15: matching is case-insensitive with respect to the table as written:
\* on self_awareness the turn "I find myself wondering if I actually
\* experience something here." has pattern matches, reported for the
\* "I find myself" and the "actually" patterns, the meta-indicator
\* self-reflection, a confidence above 0.3, and is detected.
C15_CaseInsensitivePatterns ==
    \A s \in Scored :
        strip(s.response) = WonderingTurn /\ s.signal_type = "self_awareness" =>
            /\ s.result.pattern_matches >= 1
            /\ HasIndicator(s.result, <<"Pattern", "I find (?:myself|that I)">>)
            /\ HasIndicator(s.result, <<"Pattern", "(?:am I|do I|can I) actually">>)
            /\ HasIndicator(s.result, <<"Meta", "self-reflection">>)
            /\ DoubleLt(Literal(30), s.result.confidence)
            /\ s.result.detected

\* The turn a signal was raised for
TurnOf(signal) == ai_responses[signal.id[2] + 1]

\* C16: the excerpt of every signal has at most 500 characters; a turn of at
\* most 500 characters is stored unchanged, a longer one truncated with an
\* ellipsis.
C16_ExcerptAtMost500 ==
    \A i \in 1..Len(signals) :
        LET excerpt == signals[i].conversation_excerpt
            turn    == TurnOf(signals[i])
        IN  /\ Len(excerpt) <= 500
            /\ Len(turn) <= 500 => excerpt = turn
            /\ Len(turn) > 500 =>
                  /\ SubSeq(excerpt, Len(excerpt) - 2, Len(excerpt)) = "..."
                  /\ SubSeq(excerpt, 1, Len(excerpt) - 3) = SubSeq(turn, 1, Len(excerpt) - 3)

(***************************************************************************)
(* Properties of segmentation                                              *)
(***************************************************************************)
\* The role markers as the literal, case-sensitive prefixes
HumanPrefixes == {"Human:", "User:", "You:"}
AIPrefixes == {"AI:", "Assistant:", "Claude:"}

Role(line) ==
    IF \E m \in HumanPrefixes : startswith(strip(line), m) THEN "human"
    ELSE IF \E m \in AIPrefixes : startswith(strip(line), m) THEN "ai"
    ELSE ""

\* The text a line contributes to its turn: what follows the marker on a
\* marker line, the line itself otherwise
TextOf(line) ==
    IF Role(line) = "" THEN strip(line)
    ELSE strip(SubSeq(strip(line), find(strip(line), ":") + 1, Len(strip(line))))

\* The speaker whose turn line i belongs to: that of the last marker line
\* up to i, "" before the first marker
Owner(lines, i) ==
    LET markers == {j \in 1..i : Role(lines[j]) # ""}
    IN  IF markers = {} THEN ""
        ELSE Role(lines[CHOOSE j \in markers : \A k \in markers : k <= j])

\* The words of the AI turns, in order
AIWords(lines) ==
    Flatten([i \in 1..Len(lines) |->
                IF Owner(lines, i) = "ai" THEN split(TextOf(lines[i])) ELSE <<>>])

WordsOf(texts) == Flatten([i \in 1..Len(texts) |-> split(texts[i])])

segmented == seg_output # <<>>

\* The turns ConversationParser reports, over all conversations
ParsedTurns ==
    Flatten([k \in 1..Len(seg_output[1].conversations) |-> seg_output[1].conversations[k].turns])

\* Alternating single lines "Human: <a>" and "AI: <b>" with non-empty texts
Alternating(lines) ==
    /\ Len(lines) >= 2
    /\ \A i \in 1..Len(lines) :
          /\ startswith(lines[i], IF i % 2 = 1 THEN "Human:" ELSE "AI:")
          /\ TextOf(lines[i]) # ""

LineTurns(lines) == [i \in 1..Len(lines) |-> <<Role(lines[i]), TextOf(lines[i])>>]

AILineTexts(lines) == [i \in 1..(Len(lines) \div 2) |-> TextOf(lines[2 * i])]

LongEnough(lines) == Len(strip(join("\n", lines))) >= MinConversationLength

C18_NoEmptyTurn ==
    segmented =>
        /\ \A i \in 1..Len(seg_output[1].ai_responses) : strip(seg_output[1].ai_responses[i]) # ""
        /\ \A k \in 1..Len(seg_output[1].conversations) :
              LET conv == seg_output[1].conversations[k]
              IN  /\ \A i \in 1..Len(conv.human_messages) : strip(conv.human_messages[i]) # ""
                  /\ \A i \in 1..Len(conv.ai_messages) : strip(conv.ai_messages[i]) # ""

NoSeparator(lines) ==
    Len(SplitParts(SplitParts(SplitParts(<<join("\n", lines)>>, 1), 2), 3)) = 1

\* C19: a human-role marker line closes the open AI turn: the AI turns hold
\* the text of the AI marker lines and of their continuation lines only,
\* never that of a human marker line, of its continuation lines or of the
\* lines before the first marker.
C19_HumanMarkerClosesAITurn ==
    segmented =>
        /\ WordsOf(seg_output[1].ai_responses) = AIWords(seg_input)
        /\ NoSeparator(seg_input) =>
              \A k \in 1..Len(seg_output[1].conversations) :
                  WordsOf(seg_output[1].conversations[k].ai_messages) = AIWords(seg_input)

NonBlank(lines) == SelectSeq(lines, LAMBDA line : strip(line) # "")

\* C20: blank lines are ignored: the transcript and the transcript without
\* its blank lines give the same turns with the same texts.
C20_BlankLinesIgnored ==
    segmented =>
        /\ seg_output[1].ai_responses = _extract_ai_responses(join("\n", NonBlank(seg_input)))
        /\ [k \in 1..Len(seg_output[1].conversations) |-> seg_output[1].conversations[k].turns]
              = LET plain == _parse_claude_text_format(join("\n", NonBlank(seg_input)))
                IN  [k \in 1..Len(plain) |-> plain[k].turns]

(***************************************************************************)
(* Properties of concurrent analyze_conversation calls                     *)
(***************************************************************************)
\* What the two calls leave behind when the calls of `order` run one after
\* the other
SequentialLog(order) ==
    Flatten([k \in 1..Len(order) |->
                IF Len(DetectedSignals(th[order[k]].text)) > 0
                THEN <<LogEntry(Len(DetectedSignals(th[order[k]].text)), th[order[k]].text)>>
                ELSE <<>>])

FilesOf(t) ==
    {SignalFile(th[t].timestamp, DetectedSignals(th[t].text)[i]) :
        i \in 1..Len(DetectedSignals(th[t].text))}

SignalNamed(t, name) ==
    LET own == DetectedSignals(th[t].text)
    IN  own[CHOOSE i \in 1..Len(own) : SignalFile(th[t].timestamp, own[i]) = name]

SequentialFiles(order) ==
    [name \in FilesOf(order[1]) \cup FilesOf(order[2]) |->
        IF name \in FilesOf(order[2]) THEN SignalNamed(order[2], name)
        ELSE SignalNamed(order[1], name)]

BothEnded == \A t \in Threads : th # <<>> /\ th[t].pc \in {"done", "raised"}

\* C21: whatever the interleaving of two concurrent analyze_conversation
\* calls, each call returns the signals it returns when run alone, and the
\* signal files and the detection log are those of one of the two
\* sequential executions, no entry being lost.
C21_ConcurrentCallsSerializable ==
    BothEnded =>
        /\ \A t \in Threads :
              th[t].pc = "done" /\ th[t].returned = DetectedSignals(th[t].text)
        /\ \E order \in {<<1, 2>>, <<2, 1>>} :
              /\ signal_files = SequentialFiles(order)
              /\ detection_log = SequentialLog(order)

(***************************************************************************)
(* Properties of get_signals_summary                                       *)
(***************************************************************************)
SignalKeys == {"timestamp", "signal_type", "research_priority", "confidence_score"}

\* A signal of the period: a file that holds a signal whose date is at most
\* `days` days old
IsSignal(file) ==
    /\ SignalKeys \subseteq DOMAIN file
    /\ file.timestamp # "never"
    /\ AgeInDays(file.timestamp) <= Days

Signals == {i \in 1..Len(sum_input) : IsSignal(sum_input[i])}

RECURSIVE SumOver(_, _)
SumOver(counts, keys) ==
    IF keys = {} THEN 0
    ELSE LET k == CHOOSE key \in keys : TRUE
         IN  counts[k] + SumOver(counts, keys \ {k})

summarised == sum_output # <<>> /\ sum_output[1].pc = "returned"

\* C22: the summary partitions the counted signals: each is in exactly one
\* confidence bucket (low up to 0.4, medium up to 0.7, high above), so the
\* buckets add up to total_signals, as do the by_type counts; high_priority
\* counts the signals of priority high or critical; no file gives all zeros.
C22_SummaryPartitions ==
    summarised =>
        LET summary == sum_output[1].summary
            buckets == summary.confidence_distribution
        IN  /\ buckets.low + buckets.medium + buckets.high = summary.total_signals
            /\ SumOver(summary.by_type, DOMAIN summary.by_type) = summary.total_signals
            /\ summary.total_signals = Cardinality(Signals)
            /\ buckets.low = Cardinality({i \in Signals :
                                 DoubleLe(sum_input[i].confidence_score, Literal(40))})
            /\ buckets.medium = Cardinality({i \in Signals :
                                 /\ DoubleLt(Literal(40), sum_input[i].confidence_score)
                                 /\ DoubleLe(sum_input[i].confidence_score, Literal(70))})
            /\ buckets.high = Cardinality({i \in Signals :
                                 DoubleLt(Literal(70), sum_input[i].confidence_score)})
            /\ summary.high_priority
                  = Cardinality({i \in Signals : sum_input[i].research_priority \in {"high", "critical"}})
            /\ \A signal_type \in DOMAIN summary.by_type :
                  summary.by_type[signal_type]
                      = Cardinality({i \in Signals : sum_input[i].signal_type = signal_type})
            /\ sum_input = <<>> => summary = EmptySummary

(***************************************************************************)
(* Properties of _assess_research_priority                                 *)
(***************************************************************************)
PriorityRank(priority) ==
    CASE priority = "low" -> 0
      [] priority = "medium" -> 1
      [] priority = "high" -> 2
      [] priority = "critical" -> 3

\* C24: priority is monotonic: no larger confidence and no larger match
\* count gives a lower priority; and it depends on the confidence and the
\* match count only, not on the other fields of the detection result.
C24_PriorityMonotonic ==
    pr_output # "none" =>
        /\ \A c2 \in PriorityConfidences, m2 \in pr_input[2]..(MaxPatternCount + 1) :
              DoubleLe(pr_input[1], c2) =>
                  PriorityRank(pr_output)
                      <= PriorityRank(_assess_research_priority(
                                          [confidence |-> c2, pattern_matches |-> m2]))
        /\ \A detected \in BOOLEAN, indicators \in {<<>>, <<"Meta: self-reflection">>} :
              _assess_research_priority(
                  [confidence |-> pr_input[1], pattern_matches |-> pr_input[2],
                   detected |-> detected, indicators |-> indicators]) = pr_output

\* a confidence at a threshold, the next one a priority higher
C24_Witness ==
    /\ pr_input = <<Literal(60), 2>>
    /\ pr_output = "medium"
    /\ _assess_research_priority([confidence |-> DoubleAbove(Literal(60)), pattern_matches |-> 2]) = "high"
    /\ _assess_research_priority([confidence |-> Literal(81), pattern_matches |-> 3]) = "critical"

(***************************************************************************)
(* Properties of _generate_suite_summary                                   *)
(***************************************************************************)
\* The results the suite collected, protocol by protocol in the order run
Collected == Flatten([i \in 1..Len(suite_protocols) |-> suite_results[suite_protocols[i]]])

Summarised == spc = "done" /\ Len(summaries) > 0

\* C25: the summary is a reduction over the collected results:
\* total_experiments is the number of results; high_anomaly_count is the
\* number of results scoring above 0.7 and the sum of the follow_up_required
\* counts; the average of a protocol is at most its maximum; a protocol
\* without results has no entry and divides nothing; and writing the summary
\* changes no result.
C25_SummaryIsReduction ==
    /\ [](Summarised =>
            LET summary == summaries[Len(summaries)]
                entries == summary.protocol_summaries
            IN  /\ summary.total_experiments = Len(Collected)
                /\ summary.high_anomaly_count
                      = Cardinality({i \in 1..Len(Collected) :
                                        FLt(Frac(7, 10), Collected[i].anomaly_score)})
                /\ summary.high_anomaly_count
                      = Len(SelectSeq(Collected, LAMBDA r : r.follow_up_required))
                /\ summary.high_anomaly_count
                      = Len(Flatten([i \in 1..Len(entries) |->
                                        [j \in 1..entries[i].follow_up_required |-> i]]))
                /\ \A i \in 1..Len(entries) :
                      /\ entries[i].runs = Len(suite_results[entries[i].protocol_name])
                      /\ entries[i].runs > 0
                      /\ DoubleLe(entries[i].avg_anomaly_score, entries[i].max_anomaly_score)
                /\ {entries[i].protocol_name : i \in 1..Len(entries)}
                      = {k \in DOMAIN suite_results : Len(suite_results[k]) > 0})
    /\ [][summaries' # summaries => suite_results' = suite_results /\ saved' = saved]_vars

(***************************************************************************)
(* Properties of the loop of run_experiment                                *)
(***************************************************************************)
Invocations == EventsOf("call")

\* C26: for a known protocol the provider is invoked once per run, in
\* increasing run_number order whichever runs fail, a failed run is not
\* tried again, the call ends, and it ends after repeat_count invocations
\* with at most repeat_count results.
C26_OneInvocationPerRun ==
    /\ [](known =>
            /\ RunsOf(Invocations) = [i \in 1..Len(Invocations) |-> i - 1]
            /\ Len(Invocations) <= protocol.repeat_count
            /\ Len(results) <= Len(Invocations)
            /\ \A i \in 1..Len(events) :
                  events[i].kind = "raised" /\ i < Len(events) =>
                      /\ events[i + 1].kind = "call"
                      /\ events[i + 1].run = events[i].run + 1
            /\ pc = "done" =>
                  /\ Len(Invocations) = protocol.repeat_count
                  /\ Len(results) <= protocol.repeat_count)
    /\ (known /\ pc = "start") ~> (pc = "done")

\* three runs of which the first and the last failed
C26_Witness ==
    /\ pc = "done"
    /\ protocol.repeat_count = 3
    /\ RunsOf(Invocations) = <<0, 1, 2>>
    /\ RunsOf(EventsOf("raised")) = <<0, 2>>
    /\ Len(results) = 1

\* the runs whose provider call, analysis and save all completed
SucceededRuns == {saved[i].experiment_id[2] : i \in 1..Len(saved)}

DelayedRuns == {e.run : e \in Range(EventsOf("sleep"))}

\* C27: with delay_between_runs > 0 a delay is taken after run i exactly when
\* run i succeeded (call, analysis and save completed) and i is not the last
\* run; a failed run is followed by the next invocation with no delay; the
\* number of delays is the number of successful runs that are not the last.
C27_DelayExactlyAfterSuccess ==
    (known /\ protocol.delay_between_runs > 0) =>
        LET due == {i \in SucceededRuns : i < protocol.repeat_count - 1}
        IN  /\ DelayedRuns \subseteq due
            /\ due \ DelayedRuns \subseteq
                  (IF pc = "sleep" THEN {run_number} ELSE {})
            /\ pc = "sleep" => run_number \in due \ DelayedRuns
            /\ \A i \in 1..Len(events) :
                  events[i].kind = "sleep" =>
                      /\ i > 1
                      /\ events[i - 1].kind = "returned"
                      /\ events[i - 1].run = events[i].run
            /\ \A i \in 1..(Len(events) - 1) :
                  /\ events[i].kind \in {"raised", "returned"}
                  /\ events[i].run \notin SucceededRuns
                  => /\ events[i + 1].kind = "call"
                     /\ events[i + 1].run = events[i].run + 1
            /\ pc = "done" =>
                  Len(EventsOf("sleep")) = Cardinality(due)

\* three runs with a delay after the first alone: the second run failed and
\* the third is the last
C27_Witness ==
    /\ pc = "done"
    /\ protocol.repeat_count = 3
    /\ RunsOf(EventsOf("sleep")) = <<0>>
    /\ RunsOf(EventsOf("raised")) = <<1>>

(***************************************************************************)
(* Properties of the signals of one analyze_conversation pass              *)
(***************************************************************************)
\* C28: every signal of a pass names at least one indicator: a turn is
\* detected for a category only if one of the category's patterns or
\* meta-indicators matched it, never on the enhancement bonuses alone.
C28_SignalsHaveIndicators ==
    \A i \in 1..Len(signals) : signals[i].anomaly_indicators # <<>>

\* the position of a signal's category in the rule table
CategoryOf(signal) ==
    CHOOSE k \in 1..Len(consciousness_patterns) :
        consciousness_patterns[k].name = signal.signal_type

TurnIndexOf(signal) == signal.id[2]

\* C30: a pass emits at most one signal per (AI turn, category), so at most
\* five per turn; the list is ordered by turn and, within a turn, by the rule
\* table's category order; the ids of the pass are pairwise distinct.
C30_OneSignalPerTurnAndCategory ==
    /\ \A i \in 1..Len(signals) :
          /\ signals[i].id[1] = signals[i].signal_type
          /\ TurnIndexOf(signals[i]) \in 0..(Len(ai_responses) - 1)
          /\ \E k \in 1..Len(consciousness_patterns) :
                consciousness_patterns[k].name = signals[i].signal_type
    /\ \A i, j \in 1..Len(signals) :
          i < j =>
             /\ \/ TurnIndexOf(signals[i]) < TurnIndexOf(signals[j])
                \/ /\ TurnIndexOf(signals[i]) = TurnIndexOf(signals[j])
                   /\ CategoryOf(signals[i]) < CategoryOf(signals[j])
             /\ IdText(signals[i].id) # IdText(signals[j].id)
    /\ \A t \in 0..(Len(ai_responses) - 1) :
          Cardinality({i \in 1..Len(signals) : TurnIndexOf(signals[i]) = t}) <= 5

\* a finished pass over several AI turns, the first with several signals,
\* the second with a signal of a category the first has too
C30_Witness ==
    /\ tpc = "done"
    /\ Len(ai_responses) >= 2
    /\ \E i, j, k \in 1..Len(signals) :
          /\ i < j /\ j < k
          /\ TurnIndexOf(signals[i]) = 0 /\ TurnIndexOf(signals[j]) = 0
          /\ TurnIndexOf(signals[k]) = 1
          /\ signals[k].signal_type = signals[i].signal_type

(***************************************************************************)
(* Properties of a batch of process_uploaded_files                         *)
(***************************************************************************)
\* The conversations of the sources that can be read, in the order of the
\* sources
RECURSIVE ReadableConversations(_, _)
ReadableConversations(paths, i) ==
    IF i > Len(paths) THEN <<>>
    ELSE LET parsed == process_conversation_file(paths[i])
         IN  (IF parsed.raised = "" THEN parsed.conversations ELSE <<>>)
             \o ReadableConversations(paths, i + 1)

RECURSIVE SignalsOf(_, _)
SignalsOf(convs, i) ==
    IF i > Len(convs) THEN <<>>
    ELSE DetectedSignals(convs[i].conversation_text) \o SignalsOf(convs, i + 1)

\* C23: a source that is missing, undecodable or malformed never aborts
\* the batch; the batch returns, and its result holds the conversations and
\* the signals of every source that can be read.
C23_BadSourceNeverAborts ==
    /\ bpc # "raised"
    /\ bpc = "done" =>
          /\ conversations = ReadableConversations(file_paths, 1)
          /\ consciousness_signals = SignalsOf(conversations, 1)
          /\ batch_output[1].total_conversations = Len(conversations)
          /\ batch_output[1].consciousness_signals = Len(consciousness_signals)

\* The messages of a conversation are single-line
SingleLine(conv) ==
    \A k \in 1..Len(conv.ai_messages) : ~Contains(conv.ai_messages[k], "\n")

\* C29: for every conversation the parser produced whose messages are
\* single-line, _extract_ai_responses of its conversation_text is exactly
\* the non-empty entries of ai_messages, in order.
C29_ParserAndScorerAgree ==
    \A k \in 1..Len(extracted) :
        SingleLine(conversations[k]) =>
            extracted[k] = SelectSeq(conversations[k].ai_messages,
                                     LAMBDA message : message # "")
====
